---- MODULE Spec2Model ----
(***************************************************************************)
(* Model of the jobsearch-mcp sync-and-classify pipeline: the multi-layer  *)
(* admission filter, the grouper and status engine working on the store,   *)
(* the learner's false-positive feedback, the classifier client's cache    *)
(* and the two bounded-concurrency fan-outs.                               *)
(*                                                                         *)
(* Go strings are modelled as sequences of one-character strings so that   *)
(* strings.Contains, HasPrefix, HasSuffix, Split and ToLower are computed. *)
(* Timestamps are integers counted in ticks, TicksPerDay ticks to a day.   *)
(* Confidences and keyword scores are exact rationals.                     *)
(***************************************************************************)
EXTENDS Integers, Sequences, FiniteSets, TLC

\* ------------------------------------------------------------------------
\* Go string primitives over sequences of characters
\* ------------------------------------------------------------------------

\* strings.ToLower on one ASCII character (the upper-case letters in use)
ToLowerChar(c) ==
    CASE c = "A" -> "a"
      [] c = "B" -> "b"
      [] c = "G" -> "g"
      [] c = "J" -> "j"
      [] c = "M" -> "m"
      [] c = "Q" -> "q"
      [] c = "R" -> "r"
      [] c = "W" -> "w"
      [] OTHER -> c

\* strings.ToLower
ToLower(s) == [i \in 1..Len(s) |-> ToLowerChar(s[i])]

\* strings.EqualFold (ASCII)
EqualFold(a, b) == ToLower(a) = ToLower(b)

\* strings.HasPrefix
HasPrefix(s, p) == Len(p) <= Len(s) /\ SubSeq(s, 1, Len(p)) = p

\* strings.HasSuffix
HasSuffix(s, p) == Len(p) <= Len(s) /\ SubSeq(s, Len(s) - Len(p) + 1, Len(s)) = p

\* strings.Index: first position (1-based) of sub in s, 0 when absent
Index(s, sub) ==
    LET hits == {i \in 1..(Len(s) - Len(sub) + 1) : SubSeq(s, i, i + Len(sub) - 1) = sub}
    IN IF hits = {} THEN 0 ELSE CHOOSE i \in hits : \A j \in hits : i <= j

\* strings.Contains
Contains(s, sub) == Index(s, sub) # 0

\* strings.TrimSuffix
TrimSuffix(s, p) == IF HasSuffix(s, p) THEN SubSeq(s, 1, Len(s) - Len(p)) ELSE s

\* number of occurrences of the character c in s
CountChar(s, c) == Cardinality({i \in 1..Len(s) : s[i] = c})

\* Address.Domain: strings.Split(a.Email, "@") must give exactly two parts;
\* the second part lower-cased is the domain, otherwise ""
AddressDomain(a) ==
    IF CountChar(a.Email, "@") # 1 THEN <<>>
    ELSE LET at == Index(a.Email, <<"@">>)
         IN ToLower(SubSeq(a.Email, at + 1, Len(a.Email)))

\* Email.Domain: the sender's domain
EmailDomain(e) == AddressDomain(e.From)

\* Email.IsFromMe
IsFromMe(e, myEmail) == EqualFold(e.From.Email, myEmail)

\* ------------------------------------------------------------------------
\* Filter: layers and pattern matching
\* ------------------------------------------------------------------------

LayerWhitelist == "whitelist"
LayerBlacklist == "blacklist"
LayerKeyword == "keyword"
LayerUncertain == "uncertain"
LayerRejected == "rejected"
LayerLLM == "llm"

\* confidences and scores are exact rationals num/den (Go float64 rounding
\* is not modelled)
Rat(n, d) == [num |-> n, den |-> d]
RatGeq(r, n, d) == r.num * d >= n * r.den

\* matchesDomainPattern(domain, fullEmail, pattern)
matchesDomainPattern(domain, fullEmail, pattern) ==
    \/ domain = pattern
    \/ HasSuffix(domain, <<".">> \o pattern)
    \/ /\ Contains(pattern, <<"@">>)
       /\ \/ fullEmail = pattern
          \/ HasSuffix(pattern, <<"@">>) /\ HasPrefix(fullEmail, pattern)
    \/ Contains(domain, TrimSuffix(pattern, <<".">>))

\* Filter.getRelevantAddress: recipient for outbound mail, sender otherwise
getRelevantAddress(f, e) ==
    IF f.userEmail # <<>> /\ EqualFold(e.From.Email, f.userEmail)
    THEN IF Len(e.To) > 0
         THEN [domain |-> AddressDomain(e.To[1]), fullEmail |-> ToLower(e.To[1].Email)]
         ELSE [domain |-> <<>>, fullEmail |-> <<>>]
    ELSE [domain |-> EmailDomain(e), fullEmail |-> ToLower(e.From.Email)]

\* GetAllDomainWhitelist and its siblings: config list followed by learned list
GetAllDomainWhitelist(f) == f.config.DomainWhitelist \o f.learnedDomainWhitelist

\* GetAllDomainBlacklist that forgets the learned list
GetConfigDomainBlacklist(f) == f.config.DomainBlacklist

GetAllDomainBlacklist(f) == f.config.DomainBlacklist \o f.learnedDomainBlacklist
GetAllSubjectBlacklist(f) == f.config.SubjectBlacklist \o f.learnedSubjectBlacklist
GetAllSubjectKeywords(f) == f.config.SubjectKeywords \o f.learnedSubjectKeywords
GetAllBodyKeywords(f) == f.config.BodyKeywords \o f.learnedBodyKeywords

\* the relevant address has a domain and some pattern of the list matches it
MatchesAnyDomainPattern(f, e, patterns) ==
    LET ra == getRelevantAddress(f, e)
    IN /\ ra.domain # <<>>
       /\ \E i \in 1..Len(patterns) :
              matchesDomainPattern(ra.domain, ra.fullEmail, ToLower(patterns[i]))

NoResult == [Layer |-> "none"]

\* Filter.checkDomainWhitelist (nil is NoResult)
checkDomainWhitelist(f, e) ==
    IF MatchesAnyDomainPattern(f, e, GetAllDomainWhitelist(f))
    THEN [Include |-> TRUE, Layer |-> LayerWhitelist, Confidence |-> Rat(1, 1)]
    ELSE NoResult

\* Filter.checkDomainBlacklist (nil is NoResult)
checkDomainBlacklist(f, e) ==
    IF MatchesAnyDomainPattern(f, e, GetAllDomainBlacklist(f))
    THEN [Include |-> FALSE, Layer |-> LayerBlacklist, Confidence |-> Rat(1, 1)]
    ELSE NoResult

\* the subject contains some pattern of the subject blacklist
MatchesSubjectBlacklist(f, e) ==
    LET patterns == GetAllSubjectBlacklist(f)
    IN \E i \in 1..Len(patterns) : Contains(ToLower(e.Subject), ToLower(patterns[i]))

\* Filter.checkSubjectBlacklist (nil is NoResult)
checkSubjectBlacklist(f, e) ==
    IF MatchesSubjectBlacklist(f, e)
    THEN [Include |-> FALSE, Layer |-> LayerBlacklist, Confidence |-> Rat(9, 10)]
    ELSE NoResult

\* isWordChar: ASCII letters and digits
WordChars ==
    {"a", "b", "c", "d", "e", "f", "g", "h", "i", "j", "k", "l", "m", "n", "o",
     "p", "q", "r", "s", "t", "u", "v", "w", "x", "y", "z",
     "A", "J", "M", "R", "W", "0", "1", "2", "3", "4", "5", "6", "7", "8", "9"}

isWordChar(c) == c \in WordChars

\* containsWord(text, word): phrases by substring, single words with a
\* check of the characters around the first occurrence, retrying on the
\* text after that occurrence
RECURSIVE containsWord(_, _)
containsWord(text, word) ==
    IF Contains(word, <<" ">>) THEN Contains(text, word)
    ELSE LET idx == Index(text, word)   \* 1-based, 0 when absent
             endIdx == idx + Len(word)  \* 1-based position after the occurrence
             rest == SubSeq(text, endIdx, Len(text))
         IN IF idx = 0 THEN FALSE
            ELSE IF idx > 1 /\ isWordChar(text[idx - 1]) THEN containsWord(rest, word)
            ELSE IF endIdx <= Len(text) /\ isWordChar(text[endIdx]) THEN containsWord(rest, word)
            ELSE TRUE

\* scorer weights and thresholds set in filter.New
SubjectWeight == 2
BodyWeight == 1

\* Scorer.Calculate with the bonus for matches in both subject and body not
\* capped at 1.0
CalculateNoCap(subjectMatches, totalSubjectKeywords, bodyMatches, totalBodyKeywords) ==
    IF totalSubjectKeywords = 0 /\ totalBodyKeywords = 0 THEN Rat(0, 1)
    ELSE LET ts == IF totalSubjectKeywords > 0 THEN totalSubjectKeywords ELSE 1
             tb == IF totalBodyKeywords > 0 THEN totalBodyKeywords ELSE 1
             sm == IF totalSubjectKeywords > 0 THEN subjectMatches ELSE 0
             bm == IF totalBodyKeywords > 0 THEN bodyMatches ELSE 0
             num == sm * SubjectWeight * tb + bm * BodyWeight * ts
             den == (SubjectWeight + BodyWeight) * ts * tb
         IN IF subjectMatches > 0 /\ bodyMatches > 0
            THEN Rat(num * 12, den * 10)
            ELSE Rat(num, den)

\* Scorer.Calculate, as an exact rational
Calculate(subjectMatches, totalSubjectKeywords, bodyMatches, totalBodyKeywords) ==
    IF totalSubjectKeywords = 0 /\ totalBodyKeywords = 0 THEN Rat(0, 1)
    ELSE LET ts == IF totalSubjectKeywords > 0 THEN totalSubjectKeywords ELSE 1
             tb == IF totalBodyKeywords > 0 THEN totalBodyKeywords ELSE 1
             sm == IF totalSubjectKeywords > 0 THEN subjectMatches ELSE 0
             bm == IF totalBodyKeywords > 0 THEN bodyMatches ELSE 0
             \* (subjectScore*SubjectWeight + bodyScore*BodyWeight) / totalWeight
             num == sm * SubjectWeight * tb + bm * BodyWeight * ts
             den == (SubjectWeight + BodyWeight) * ts * tb
         IN IF subjectMatches > 0 /\ bodyMatches > 0
            THEN \* min(1.0, weightedScore*1.2)
                 IF num * 12 >= den * 10 THEN Rat(1, 1) ELSE Rat(num * 12, den * 10)
            ELSE Rat(num, den)

\* number of keywords of the list that containsWord finds in the text
CountMatches(text, keywords) ==
    Cardinality({i \in 1..Len(keywords) : containsWord(text, ToLower(keywords[i]))})

\* Filter.scoreKeywords: IncludeThreshold 0.3, UncertainMin 0.02
scoreKeywords(f, e) ==
    LET subjectLower == ToLower(e.Subject)
        bodyLower == IF ToLower(e.Body) = <<>> THEN ToLower(e.Snippet) ELSE ToLower(e.Body)
        subjectKeywords == GetAllSubjectKeywords(f)
        bodyKeywords == GetAllBodyKeywords(f)
        score == Calculate(CountMatches(subjectLower, subjectKeywords), Len(subjectKeywords),
                           CountMatches(bodyLower, bodyKeywords), Len(bodyKeywords))
    IN IF RatGeq(score, 3, 10)
       THEN [Include |-> TRUE, Layer |-> LayerKeyword, Confidence |-> score]
       ELSE IF RatGeq(score, 2, 100)
       THEN [Include |-> FALSE, Layer |-> LayerUncertain, Confidence |-> score]
       ELSE [Include |-> FALSE, Layer |-> LayerRejected,
             Confidence |-> Rat(score.den - score.num, score.den)]

\* Filter.Apply with the blacklist consulted before the whitelist
ApplyBlacklistFirst(f, e) ==
    IF checkDomainBlacklist(f, e) # NoResult THEN checkDomainBlacklist(f, e)
    ELSE IF checkSubjectBlacklist(f, e) # NoResult THEN checkSubjectBlacklist(f, e)
    ELSE IF checkDomainWhitelist(f, e) # NoResult THEN checkDomainWhitelist(f, e)
    ELSE scoreKeywords(f, e)

\* Filter.Apply: whitelist, domain blacklist, subject blacklist, keyword scoring
Apply(f, e) ==
    IF checkDomainWhitelist(f, e) # NoResult THEN checkDomainWhitelist(f, e)
    ELSE IF checkDomainBlacklist(f, e) # NoResult THEN checkDomainBlacklist(f, e)
    ELSE IF checkSubjectBlacklist(f, e) # NoResult THEN checkSubjectBlacklist(f, e)
    ELSE scoreKeywords(f, e)

\* ------------------------------------------------------------------------
\* Learner helpers
\* ------------------------------------------------------------------------

\* strings.TrimPrefix
TrimPrefix(s, p) == IF HasPrefix(s, p) THEN SubSeq(s, Len(p) + 1, Len(s)) ELSE s

\* the elements of a sequence
Range(s) == {s[i] : i \in 1..Len(s)}

\* isCommonDomain's table
CommonDomains ==
    <<<<"g", "m", "a", "i", "l", ".", "c", "o", "m">>,
      <<"y", "a", "h", "o", "o", ".", "c", "o", "m">>,
      <<"h", "o", "t", "m", "a", "i", "l", ".", "c", "o", "m">>,
      <<"o", "u", "t", "l", "o", "o", "k", ".", "c", "o", "m">>,
      <<"i", "c", "l", "o", "u", "d", ".", "c", "o", "m">>,
      <<"p", "r", "o", "t", "o", "n", "m", "a", "i", "l", ".", "c", "o", "m">>,
      <<"m", "a", "i", "l", ".", "c", "o", "m">>>>

\* ExtractCompanyFromDomain's tables
CompanySuffixes ==
    <<<<".", "c", "o", "m">>,
      <<".", "i", "o">>,
      <<".", "c", "o">>,
      <<".", "n", "e", "t">>,
      <<".", "o", "r", "g">>,
      <<".", "a", "i">>,
      <<".", "a", "p", "p">>,
      <<".", "j", "o", "b", "s">>,
      <<".", "c", "a", "r", "e", "e", "r", "s">>,
      <<".", "w", "o", "r", "k">>,
      <<".", "h", "i", "r", "e">>>>

CompanyPrefixes ==
    <<<<"m", "a", "i", "l", ".">>,
      <<"e", "m", "a", "i", "l", ".">>,
      <<"j", "o", "b", "s", ".">>,
      <<"c", "a", "r", "e", "e", "r", "s", ".">>,
      <<"r", "e", "c", "r", "u", "i", "t", "i", "n", "g", ".">>,
      <<"t", "a", "l", "e", "n", "t", ".">>,
      <<"h", "r", ".">>,
      <<"h", "i", "r", "e", ".">>,
      <<"a", "p", "p", "l", "y", ".">>,
      <<"w", "w", "w", ".">>>>

ATSDomains ==
    <<<<"g", "r", "e", "e", "n", "h", "o", "u", "s", "e">>,
      <<"l", "e", "v", "e", "r">>,
      <<"a", "s", "h", "b", "y", "h", "q">>,
      <<"s", "m", "a", "r", "t", "r", "e", "c", "r", "u", "i", "t", "e", "r", "s">>,
      <<"w", "o", "r", "k", "d", "a", "y">>,
      <<"m", "y", "w", "o", "r", "k", "d", "a", "y", "j", "o", "b", "s">>,
      <<"i", "c", "i", "m", "s">>,
      <<"t", "a", "l", "e", "o">>,
      <<"j", "o", "b", "v", "i", "t", "e">>,
      <<"b", "r", "e", "e", "z", "y">>>>

\* extractBlacklistPhrases' table
BlacklistPhrases ==
    <<<<"j", "o", "b", " ", "a", "l", "e", "r", "t">>,
      <<"n", "e", "w", " ", "j", "o", "b", "s">>,
      <<"j", "o", "b", "s", " ", "f", "o", "r", " ", "y", "o", "u">>,
      <<"w", "e", "e", "k", "l", "y", " ", "d", "i", "g", "e", "s", "t">>,
      <<"d", "a", "i", "l", "y", " ", "d", "i", "g", "e", "s", "t">>,
      <<"n", "e", "w", "s", "l", "e", "t", "t", "e", "r">>,
      <<"u", "n", "s", "u", "b", "s", "c", "r", "i", "b", "e">>,
      <<"v", "i", "e", "w", " ", "i", "n", " ", "b", "r", "o", "w", "s", "e", "r">>>>

\* s with each suffix of the list trimmed in turn
RECURSIVE TrimSuffixes(_, _)
TrimSuffixes(s, list) ==
    IF list = <<>> THEN s ELSE TrimSuffixes(TrimSuffix(s, Head(list)), Tail(list))

\* s with each prefix of the list trimmed in turn
RECURSIVE TrimPrefixes(_, _)
TrimPrefixes(s, list) ==
    IF list = <<>> THEN s ELSE TrimPrefixes(TrimPrefix(s, Head(list)), Tail(list))

\* ExtractCompanyFromDomain(domain) = "": the trimmed name is an ATS name
\* or is empty (the capitalised name is not needed here)
ExtractCompanyIsEmpty(domain) ==
    LET name == TrimPrefixes(TrimSuffixes(domain, CompanySuffixes), CompanyPrefixes)
    IN name \in Range(ATSDomains) \/ name = <<>>

\* isCommonDomain
isCommonDomain(domain) == ToLower(domain) \in Range(CommonDomains)

\* isATSDomain looking the whole domain up in the ATS table
isATSDomainUntrimmed(domain) == domain \in Range(ATSDomains)

\* isATSDomain
isATSDomain(domain) == ExtractCompanyIsEmpty(domain)

\* extractBlacklistPhrases(text): the catalogue phrases contained in text
extractBlacklistPhrases(text) == {p \in Range(BlacklistPhrases) : Contains(text, p)}

\* extractRecruitingPhrases' table
RecruitingPhrases ==
    <<<<"e", "x", "c", "i", "t", "i", "n", "g", " ", "o", "p", "p", "o", "r", "t", "u", "n", "i", "t", "y">>,
      <<"p", "e", "r", "f", "e", "c", "t", " ", "f", "i", "t">>,
      <<"g", "r", "e", "a", "t", " ", "f", "i", "t">>,
      <<"y", "o", "u", "r", " ", "b", "a", "c", "k", "g", "r", "o", "u", "n", "d">>,
      <<"y", "o", "u", "r", " ", "e", "x", "p", "e", "r", "i", "e", "n", "c", "e">>,
      <<"y", "o", "u", "r", " ", "p", "r", "o", "f", "i", "l", "e">>,
      <<"r", "e", "a", "c", "h", "i", "n", "g", " ", "o", "u", "t">>,
      <<"t", "o", "u", "c", "h", " ", "b", "a", "s", "e">>,
      <<"q", "u", "i", "c", "k", " ", "c", "h", "a", "t">>,
      <<"q", "u", "i", "c", "k", " ", "c", "a", "l", "l">>,
      <<"o", "p", "e", "n", " ", "r", "o", "l", "e">>,
      <<"o", "p", "e", "n", " ", "p", "o", "s", "i", "t", "i", "o", "n">>,
      <<"n", "e", "w", " ", "r", "o", "l", "e">>,
      <<"n", "e", "w", " ", "p", "o", "s", "i", "t", "i", "o", "n">>,
      <<"c", "a", "r", "e", "e", "r", " ", "o", "p", "p", "o", "r", "t", "u", "n", "i", "t", "y">>,
      <<"j", "o", "b", " ", "o", "p", "p", "o", "r", "t", "u", "n", "i", "t", "y">>>>

\* extractRecruitingPhrases(text): the catalogue phrases contained in text
extractRecruitingPhrases(text) == {p \in Range(RecruitingPhrases) : Contains(text, p)}

\* ------------------------------------------------------------------------
\* Status engine
\* ------------------------------------------------------------------------

StatusActive == "active"
StatusWaitingOnMe == "waiting_on_me"
StatusWaitingOnThem == "waiting_on_them"
StatusStale == "stale"
StatusClosed == "closed"

\* ticks per day: the resolution of the modelled clock
TicksPerDay == 2

\* sorted[0] after sort.Slice by date descending.  For the short lists used
\* here sort.Slice is an insertion sort, which never swaps equal dates: the
\* result is the first email of the input list among those of greatest date.
LastEmail(list) ==
    list[CHOOSE i \in 1..Len(list) :
            /\ \A j \in 1..Len(list) : list[j].Date <= list[i].Date
            /\ \A j \in 1..(i - 1) : list[j].Date < list[i].Date]

\* ComputeStatus with >= in the stale test
ComputeStatusGeq(list, myEmail, staleAfterDays, t) ==
    IF Len(list) = 0 THEN StatusActive
    ELSE IF t - LastEmail(list).Date >= staleAfterDays * TicksPerDay THEN StatusStale
    ELSE IF EqualFold(LastEmail(list).FromAddress, myEmail) THEN StatusWaitingOnThem
    ELSE StatusWaitingOnMe

\* ComputeStatus(emails, myEmail, staleAfterDays) evaluated at time t:
\* time.Since(lastEmail.Date).Hours()/24 > staleAfterDays is a comparison of
\* the elapsed time with staleAfterDays whole days
ComputeStatus(list, myEmail, staleAfterDays, t) ==
    IF Len(list) = 0 THEN StatusActive
    ELSE IF t - LastEmail(list).Date > staleAfterDays * TicksPerDay THEN StatusStale
    ELSE IF EqualFold(LastEmail(list).FromAddress, myEmail) THEN StatusWaitingOnThem
    ELSE StatusWaitingOnMe

\* ------------------------------------------------------------------------
\* Store operations (SQL statements of the database package)
\* ------------------------------------------------------------------------

DirectionInbound == "inbound"
DirectionOutbound == "outbound"

FilterTypeDomainWhitelist == "domain_whitelist"
FilterTypeDomainBlacklist == "domain_blacklist"
FilterTypeSubjectKeyword == "subject_keyword"
FilterTypeBodyKeyword == "body_keyword"
FilterTypeSubjectBlacklist == "subject_blacklist"

FilterSourceUser == "user"
FilterSourceAISuggested == "ai_suggested"
FilterSourceAIConfirmed == "ai_confirmed"

\* GetEmailByGmailID looking the row up by thread id instead of gmail id
GetEmailByWrongKey(rows, gmailID) == {r \in rows : r.ThreadID = gmailID}

\* GetEmailByGmailID: the rows with that gmail_id (none is nil)
GetEmailByGmailID(rows, gmailID) == {r \in rows : r.GmailID = gmailID}

\* CreateEmail: INSERT; gmail_id is UNIQUE
CreateEmailOk(rows, row) == \A r \in rows : r.GmailID # row.GmailID
CreateEmail(rows, row) == rows \cup {row}

\* CreateConversation: INSERT
CreateConversation(convs, c) == convs \cup {c}

\* UpdateConversation: UPDATE of every column of the statement (recruiter,
\* direction, status, last_activity_at, email_count) from the caller's struct
UpdateConversation(convs, c) ==
    {IF x.ID = c.ID
     THEN [x EXCEPT !.RecruiterEmail = c.RecruiterEmail, !.Direction = c.Direction,
                    !.Status = c.Status, !.LastActivityAt = c.LastActivityAt,
                    !.EmailCount = c.EmailCount]
     ELSE x : x \in convs}

\* IncrementEmailCount: UPDATE email_count = email_count + 1
IncrementEmailCount(convs, convID) ==
    {IF x.ID = convID THEN [x EXCEPT !.EmailCount = @ + 1] ELSE x : x \in convs}

\* GetConversationByThreadID: conversations joined to an email of that
\* thread (the statement returns one of them, LIMIT 1)
GetConversationByThreadID(convs, rows, threadID) ==
    {c \in convs : \E r \in rows : r.ConversationID = c.ID /\ r.ThreadID = threadID}

\* ListEmailsForConversation: the rows of the conversation (ORDER BY date ASC)
ListEmailsForConversation(rows, convID) == {r \in rows : r.ConversationID = convID}

\* the orders in which a date-ascending query can return the rows
DateAscOrders(rows) ==
    {s \in [1..Cardinality(rows) -> rows] :
        /\ \A i, j \in 1..Cardinality(rows) : i # j => s[i] # s[j]
        /\ \A i, j \in 1..Cardinality(rows) : i < j => s[i].Date <= s[j].Date}

\* LearnedFilterExists: COUNT(*) WHERE filter_type = ? AND LOWER(value) = LOWER(?)
LearnedFilterExists(lf, filterType, value) ==
    \E r \in lf : r.FilterType = filterType /\ ToLower(r.Value) = ToLower(value)

\* CreateLearnedFilter: INSERT ... ON CONFLICT(filter_type, value) DO UPDATE source
CreateLearnedFilter(lf, f) ==
    IF \E r \in lf : r.FilterType = f.FilterType /\ r.Value = f.Value
    THEN {IF r.FilterType = f.FilterType /\ r.Value = f.Value
          THEN [r EXCEPT !.Source = f.Source] ELSE r : r \in lf}
    ELSE lf \cup {f}

\* GetLearnedFiltersByType without the condition on the source
GetLearnedFiltersAnySource(lf, filterType) ==
    {r.Value : r \in {x \in lf : x.FilterType = filterType}}

\* GetLearnedFiltersByType: values of the type with source user or ai_confirmed
GetLearnedFiltersByType(lf, filterType) ==
    {r.Value : r \in {x \in lf : /\ x.FilterType = filterType
                                /\ x.Source \in {FilterSourceUser, FilterSourceAIConfirmed}}}

\* GetConversationByRecruiterEmail: conversations whose recruiter_email
\* equals the address case-insensitively (one of them is returned)
GetConversationByRecruiterEmail(convs, addr) ==
    {c \in convs : EqualFold(c.RecruiterEmail, addr)}

\* the false-positive threshold of runMarkSpam
autoBlacklistThreshold == 3

\* MarkFalsePositive(domain): increment false_positive_count of the
\* (domain_blacklist, domain) row, creating it with source user and count 1
MarkFalsePositiveRow(lf, domain) ==
    IF \E r \in lf : r.FilterType = FilterTypeDomainBlacklist /\ r.Value = domain
    THEN {IF r.FilterType = FilterTypeDomainBlacklist /\ r.Value = domain
          THEN [r EXCEPT !.FalsePositiveCount = @ + 1] ELSE r : r \in lf}
    ELSE lf \cup {[FilterType |-> FilterTypeDomainBlacklist, Value |-> domain,
                   Source |-> FilterSourceUser, FalsePositiveCount |-> 1,
                   AutoBlacklisted |-> FALSE]}

\* GetFalsePositiveCount(domain)
GetFalsePositiveCount(lf, domain) ==
    IF \E r \in lf : r.FilterType = FilterTypeDomainBlacklist /\ r.Value = domain
    THEN (CHOOSE r \in lf : r.FilterType = FilterTypeDomainBlacklist /\ r.Value = domain).FalsePositiveCount
    ELSE 0

\* PromoteToAutoBlacklist(domain): mark the rule auto-blacklisted
PromoteToAutoBlacklist(lf, domain) ==
    {IF r.FilterType = FilterTypeDomainBlacklist /\ r.Value = domain
     THEN [r EXCEPT !.AutoBlacklisted = TRUE] ELSE r : r \in lf}

\* GetLearnedBlacklist: the active blacklist domains (user, ai_confirmed
\* and auto-promoted)
GetLearnedBlacklist(lf) ==
    {r.Value : r \in {x \in lf : /\ x.FilterType = FilterTypeDomainBlacklist
                                /\ \/ x.Source \in {FilterSourceUser, FilterSourceAIConfirmed}
                                   \/ x.AutoBlacklisted}}

\* ArchiveConversation: set the archived flag
ArchiveConversation(convs, convID) ==
    {IF x.ID = convID THEN [x EXCEPT !.Archived = TRUE] ELSE x : x \in convs}

\* ------------------------------------------------------------------------
\* The provider's mailbox and the configuration used in the model
\* ------------------------------------------------------------------------

\* the account owner (GetUserEmail)
UserEmail == <<"m", "@", "u">>

Addr(s) == [Email |-> s]

\* messages the provider can list; Date in ticks
Mail ==
    [m1 |-> [ID |-> "m1", ThreadID |-> "t1", From |-> Addr(<<"r", "@", "a">>),
             To |-> <<Addr(UserEmail)>>, Date |-> 1,
             Subject |-> <<"j">>, Body |-> <<>>, Snippet |-> <<>>],
     m2 |-> [ID |-> "m2", ThreadID |-> "t1", From |-> Addr(<<"M", "@", "u">>),
             To |-> <<Addr(<<"r", "@", "a">>)>>, Date |-> 2,
             Subject |-> <<"j">>, Body |-> <<>>, Snippet |-> <<>>],
     m3 |-> [ID |-> "m3", ThreadID |-> "t1", From |-> Addr(<<"s", "@", "a">>),
             To |-> <<Addr(UserEmail)>>, Date |-> 1,
             Subject |-> <<"j">>, Body |-> <<>>, Snippet |-> <<>>],
     m4 |-> [ID |-> "m4", ThreadID |-> "t2", From |-> Addr(<<"R", "@", "a">>),
             To |-> <<Addr(UserEmail)>>, Date |-> 0,
             Subject |-> <<"j">>, Body |-> <<>>, Snippet |-> <<>>],
     m5 |-> [ID |-> "m5", ThreadID |-> "t3", From |-> Addr(<<"r", "@", "w">>),
             To |-> <<Addr(UserEmail)>>, Date |-> 1,
             Subject |-> <<>>, Body |-> <<>>, Snippet |-> <<>>],
     m6 |-> [ID |-> "m6", ThreadID |-> "t3", From |-> Addr(<<"s", "@", "w">>),
             To |-> <<Addr(UserEmail)>>, Date |-> 2,
             Subject |-> <<>>, Body |-> <<>>, Snippet |-> <<>>],
     m7 |-> [ID |-> "m7", ThreadID |-> "t5", From |-> Addr(<<"r", "@", "b">>),
             To |-> <<Addr(UserEmail)>>, Date |-> 1,
             Subject |-> <<>>, Body |-> <<"x">>, Snippet |-> <<>>],
     m8 |-> [ID |-> "m8", ThreadID |-> "t6", From |-> Addr(UserEmail),
             To |-> <<>>, Date |-> 2,
             Subject |-> <<"j">>, Body |-> <<>>, Snippet |-> <<>>]]

\* the mailboxes a behaviour can start with
Mailboxes == {{"m1", "m2", "m3", "m4"}, {"m5", "m6"}, {"m7", "m8"}}

\* [filters] of the configuration file
FilterConfig ==
    [DomainWhitelist |-> << <<"w">> >>,
     DomainBlacklist |-> << <<"n", "@">> >>,
     SubjectBlacklist |-> << <<"z", "z">> >>,
     SubjectKeywords |-> << <<"j">> >>,
     BodyKeywords |-> << <<"x">>, <<"y">>, <<"k">>, <<"v">> >>]

\* tracking.stale_after_days of the configuration file
StaleAfterDays == 1

\* a set as a sequence, in some fixed order
RECURSIVE SeqOfSet(_)
SeqOfSet(S) ==
    IF S = {} THEN <<>>
    ELSE LET x == CHOOSE y \in S : TRUE IN <<x>> \o SeqOfSet(S \ {x})

\* filter.New(cfg.Filters)
NewFilter(cfg) ==
    [config |-> cfg, userEmail |-> <<>>,
     learnedDomainWhitelist |-> <<>>, learnedDomainBlacklist |-> <<>>,
     learnedSubjectBlacklist |-> <<>>, learnedSubjectKeywords |-> <<>>,
     learnedBodyKeywords |-> <<>>]

\* Filter.AddLearnedFilters
AddLearnedFilters(f, filterType, values) ==
    CASE filterType = FilterTypeDomainWhitelist ->
             [f EXCEPT !.learnedDomainWhitelist = @ \o values]
      [] filterType = FilterTypeDomainBlacklist ->
             [f EXCEPT !.learnedDomainBlacklist = @ \o values]
      [] filterType = FilterTypeSubjectBlacklist ->
             [f EXCEPT !.learnedSubjectBlacklist = @ \o values]
      [] filterType = FilterTypeSubjectKeyword ->
             [f EXCEPT !.learnedSubjectKeywords = @ \o values]
      [] filterType = FilterTypeBodyKeyword ->
             [f EXCEPT !.learnedBodyKeywords = @ \o values]
      [] OTHER -> f

\* loadLearnedFilters of the sync command: the confirmed filters of each type
loadLearnedFilters(lf, f0) ==
    LET add(f, ft) == AddLearnedFilters(f, ft, SeqOfSet(GetLearnedFiltersByType(lf, ft)))
    IN add(add(add(add(add(f0, FilterTypeDomainWhitelist), FilterTypeDomainBlacklist),
                   FilterTypeSubjectBlacklist), FilterTypeSubjectKeyword),
           FilterTypeBodyKeyword)

\* the filter a sync run works with: runSync builds it and loads the learned
\* filters, SyncWithOptions sets the user email and adds the learned blacklist
SyncFilter(lf) ==
    LET f1 == loadLearnedFilters(lf, NewFilter(FilterConfig))
        f2 == [f1 EXCEPT !.userEmail = UserEmail]
    IN IF GetLearnedBlacklist(lf) # {}
       THEN AddLearnedFilters(f2, FilterTypeDomainBlacklist, SeqOfSet(GetLearnedBlacklist(lf)))
       ELSE f2

\* ------------------------------------------------------------------------
\* Learner
\* ------------------------------------------------------------------------

NewLearnedFilter(filterType, value, source, count) ==
    [FilterType |-> filterType, Value |-> value, Source |-> source,
     FalsePositiveCount |-> count, AutoBlacklisted |-> FALSE]

\* Learner.suggestDomain
suggestDomain(lf, e) ==
    LET domain == EmailDomain(e)
    IN IF domain = <<>> THEN lf
       ELSE IF isCommonDomain(domain) \/ isATSDomain(domain) THEN lf
       ELSE IF LearnedFilterExists(lf, FilterTypeDomainWhitelist, domain) THEN lf
       ELSE CreateLearnedFilter(lf, NewLearnedFilter(FilterTypeDomainWhitelist, domain,
                                                     FilterSourceAISuggested, 0))

\* create one row per phrase of the set that has no row yet
RECURSIVE CreatePhraseFilters(_, _, _, _, _)
CreatePhraseFilters(lf, filterType, phrases, source, count) ==
    IF phrases = {} THEN lf
    ELSE LET p == CHOOSE x \in phrases : TRUE
             lf1 == IF LearnedFilterExists(lf, filterType, p) THEN lf
                    ELSE CreateLearnedFilter(lf, NewLearnedFilter(filterType, p, source, count))
         IN CreatePhraseFilters(lf1, filterType, phrases \ {p}, source, count)

\* Learner.suggestSubjectKeywords
suggestSubjectKeywords(lf, e) ==
    CreatePhraseFilters(lf, FilterTypeSubjectKeyword,
                        extractRecruitingPhrases(ToLower(e.Subject)),
                        FilterSourceAISuggested, 0)

\* Learner.LearnFromEmail: only for confidence >= 0.7
LearnFromEmail(lf, e, confidence) ==
    IF ~RatGeq(confidence, 7, 10) THEN lf
    ELSE suggestSubjectKeywords(suggestDomain(lf, e), e)

\* Learner.LearnFromFeedback(e, isFalsePositive = true)
LearnFromFalsePositive(lf, e) ==
    LET domain == EmailDomain(e)
        lf1 == IF domain # <<>> /\ ~isCommonDomain(domain)
                  /\ ~LearnedFilterExists(lf, FilterTypeDomainBlacklist, domain)
               THEN CreateLearnedFilter(lf, NewLearnedFilter(FilterTypeDomainBlacklist, domain,
                                                             FilterSourceUser, 1))
               ELSE lf
    IN CreatePhraseFilters(lf1, FilterTypeSubjectBlacklist,
                           extractBlacklistPhrases(ToLower(e.Subject)),
                           FilterSourceUser, 1)

\* Learner.LearnFromFeedback(e, isFalsePositive = false)
LearnFromFalseNegative(lf, e) ==
    LET domain == EmailDomain(e)
    IN IF domain # <<>> /\ ~isCommonDomain(domain) /\ ~isATSDomain(domain)
          /\ ~LearnedFilterExists(lf, FilterTypeDomainWhitelist, domain)
       THEN CreateLearnedFilter(lf, NewLearnedFilter(FilterTypeDomainWhitelist, domain,
                                                     FilterSourceUser, 0))
       ELSE lf

\* ApproveLearnedFilter: UPDATE ... SET source = ai_confirmed WHERE id = ? AND
\* source = ai_suggested (the row is named by its type and value)
ApproveLearnedFilter(lf, f) ==
    {IF r = f /\ r.Source = FilterSourceAISuggested
     THEN [r EXCEPT !.Source = FilterSourceAIConfirmed] ELSE r : r \in lf}

\* DeleteLearnedFilter: DELETE ... WHERE id = ?
DeleteLearnedFilter(lf, f) == lf \ {f}

\* the start of SyncWithOptions on the Tracker's filter f: set the user email,
\* add the learned blacklist when it is not empty
SyncStartFilter(f, lf) ==
    LET f2 == [f EXCEPT !.userEmail = UserEmail]
    IN IF GetLearnedBlacklist(lf) # {}
       THEN AddLearnedFilters(f2, FilterTypeDomainBlacklist, SeqOfSet(GetLearnedBlacklist(lf)))
       ELSE f2

\* ------------------------------------------------------------------------
\* Classification stage of SyncWithOptions
\* ------------------------------------------------------------------------

\* what the classifier service can answer for one message
ClassifyOutcomes ==
    {[Error |-> TRUE, IsJobRelated |-> FALSE, Confidence |-> Rat(0, 1)],
     [Error |-> FALSE, IsJobRelated |-> FALSE, Confidence |-> Rat(9, 10)],
     [Error |-> FALSE, IsJobRelated |-> TRUE, Confidence |-> Rat(3, 10)],
     [Error |-> FALSE, IsJobRelated |-> TRUE, Confidence |-> Rat(5, 10)],
     [Error |-> FALSE, IsJobRelated |-> TRUE, Confidence |-> Rat(6, 10)],
     [Error |-> FALSE, IsJobRelated |-> TRUE, Confidence |-> Rat(8, 10)],
     [Error |-> FALSE, IsJobRelated |-> TRUE, Confidence |-> Rat(9, 10)]}

\* what the validator can answer for one message
ValidateOutcomes ==
    {[Error |-> TRUE, FinalVerdict |-> FALSE, Confidence |-> Rat(0, 1), HasReasoning |-> FALSE],
     [Error |-> FALSE, FinalVerdict |-> TRUE, Confidence |-> Rat(9, 10), HasReasoning |-> TRUE],
     [Error |-> FALSE, FinalVerdict |-> FALSE, Confidence |-> Rat(9, 10), HasReasoning |-> TRUE],
     [Error |-> FALSE, FinalVerdict |-> FALSE, Confidence |-> Rat(9, 10), HasReasoning |-> FALSE]}

\* the slot of vl for a message the validator is not asked about
NoValidation ==
    [Error |-> FALSE, FinalVerdict |-> FALSE, Confidence |-> Rat(0, 1), HasReasoning |-> FALSE]

\* the medium band taken as confidenceMediumThreshold < confidence <=
\* confidenceHighThreshold
NeedsValidationOpenBelow(c) ==
    /\ ~RatGeq(Rat(5, 10), c.Confidence.num, c.Confidence.den)
    /\ RatGeq(Rat(8, 10), c.Confidence.num, c.Confidence.den)

\* confidenceMediumThreshold <= confidence < confidenceHighThreshold
NeedsValidation(c) == ~RatGeq(c.Confidence, 8, 10) /\ RatGeq(c.Confidence, 5, 10)

IdxSeq(n) == [i \in 1..n |-> i]

\* sum of f[i] over the indices of a sequence of numbers
RECURSIVE SumSeq(_)
SumSeq(s) == IF s = <<>> THEN 0 ELSE Head(s) + SumSeq(Tail(s))

\* FilterUncertain also taking the emails the keyword layer decided
FilterUncertainOrKeyword(fl) ==
    SelectSeq(fl, LAMBDA fe : fe.Result.Layer \in {LayerUncertain, LayerKeyword})

\* FilterIncluded / FilterUncertain over the filtered list
FilterIncluded(fl) == SelectSeq(fl, LAMBDA fe : fe.Result.Include)
FilterUncertain(fl) == SelectSeq(fl, LAMBDA fe : fe.Result.Layer = LayerUncertain)

\* the classification and validation loops with a validator rejection
\* treated like a confirmation
ClassifiedToProcessKeepRejected(uncertain, cl, vl) ==
    LET n == Len(uncertain)
        high(i) == ~cl[i].Error /\ cl[i].IsJobRelated /\ ~NeedsValidation(cl[i])
        med(i) == ~cl[i].Error /\ cl[i].IsJobRelated /\ NeedsValidation(cl[i])
        pe(i) == [ID |-> uncertain[i].ID,
                  Result |-> [Include |-> TRUE, Layer |-> LayerLLM,
                              Confidence |-> IF med(i) /\ ~vl[i].Error
                                             THEN vl[i].Confidence ELSE cl[i].Confidence],
                  Classified |-> TRUE,
                  Validated |-> med(i) /\ ~vl[i].Error]
        peSeq(idx) == [k \in 1..Len(idx) |-> pe(idx[k])]
    IN peSeq(SelectSeq(IdxSeq(n), high)) \o peSeq(SelectSeq(IdxSeq(n), med))

\* the entries appended to toProcess by the classification and validation
\* loops for the uncertain list, given the classifier's answers cl and the
\* validator's answers vl (one per uncertain message)
ClassifiedToProcess(uncertain, cl, vl) ==
    LET n == Len(uncertain)
        high(i) == ~cl[i].Error /\ cl[i].IsJobRelated /\ ~NeedsValidation(cl[i])
        med(i) == ~cl[i].Error /\ cl[i].IsJobRelated /\ NeedsValidation(cl[i])
        kept(i) == med(i) /\ (vl[i].Error \/ vl[i].FinalVerdict)
        pe(i) == [ID |-> uncertain[i].ID,
                  Result |-> [Include |-> TRUE, Layer |-> LayerLLM,
                              Confidence |-> IF med(i) /\ ~vl[i].Error
                                             THEN vl[i].Confidence ELSE cl[i].Confidence],
                  Classified |-> TRUE,
                  Validated |-> med(i) /\ ~vl[i].Error]
        peSeq(idx) == [k \in 1..Len(idx) |-> pe(idx[k])]
    IN peSeq(SelectSeq(IdxSeq(n), high)) \o peSeq(SelectSeq(IdxSeq(n), kept))

\* the errors appended to result.Errors by the two loops
ClassifiedErrors(uncertain, cl, vl) ==
    LET n == Len(uncertain)
        med(i) == ~cl[i].Error /\ cl[i].IsJobRelated /\ NeedsValidation(cl[i])
        err(i) == IF cl[i].Error THEN 1
                  ELSE IF med(i) /\ vl[i].Error THEN 1
                  ELSE IF med(i) /\ ~vl[i].FinalVerdict /\ vl[i].HasReasoning THEN 1
                  ELSE 0
    IN SumSeq([i \in 1..n |-> err(i)])

\* the validation-rejected entries among them
ClassifiedRejections(uncertain, cl, vl) ==
    LET n == Len(uncertain)
        med(i) == ~cl[i].Error /\ cl[i].IsJobRelated /\ NeedsValidation(cl[i])
        rej(i) == IF med(i) /\ ~vl[i].Error /\ ~vl[i].FinalVerdict /\ vl[i].HasReasoning
                  THEN 1 ELSE 0
    IN SumSeq([i \in 1..n |-> rej(i)])

\* the messages handed to the classifier (batch API or one by one): every
\* uncertain message, in order
ClassifyCalls(uncertain) == [i \in 1..Len(uncertain) |-> uncertain[i].ID]

\* the messages of needsValidation, each handed to ValidateWithFallback
ValidateCalls(uncertain, cl) ==
    LET med(i) == ~cl[i].Error /\ cl[i].IsJobRelated /\ NeedsValidation(cl[i])
        idx == SelectSeq(IdxSeq(Len(uncertain)), med)
    IN [k \in 1..Len(idx) |-> uncertain[idx[k]].ID]

\* the validator's answers, by position in uncertain; NoValidation where the
\* validator was not called
ValidateAnswers(uncertain, cl, vl) ==
    [i \in 1..Len(uncertain) |->
        IF ~cl[i].Error /\ cl[i].IsJobRelated /\ NeedsValidation(cl[i])
        THEN vl[i] ELSE NoValidation]

\* the learned filters after the LearnFromEmail calls of the two loops
RECURSIVE ClassifiedLearn(_, _, _, _, _)
ClassifiedLearn(lf, uncertain, cl, vl, i) ==
    IF i > Len(uncertain) THEN lf
    ELSE LET e == Mail[uncertain[i].ID]
             job == ~cl[i].Error /\ cl[i].IsJobRelated
             lf1 == IF job /\ ~NeedsValidation(cl[i])
                    THEN LearnFromEmail(lf, e, cl[i].Confidence)
                    ELSE IF job /\ ~vl[i].Error /\ vl[i].FinalVerdict
                    THEN LearnFromEmail(lf, e, vl[i].Confidence)
                    ELSE lf
         IN ClassifiedLearn(lf1, uncertain, cl, vl, i + 1)

\* ------------------------------------------------------------------------
\* State
\* ------------------------------------------------------------------------

VARIABLES
    now,              \* the wall clock, in ticks
    mailbox,          \* ids of the messages the provider holds
    faults,           \* store statement failures the behaviour can still see
    emails,           \* rows of the emails table
    conversations,    \* rows of the conversations table
    nextConvID,       \* the id the next CreateConversation assigns
    syncState,        \* the sync_state row
    learnedFilters,   \* rows of the learned_filters table
    pc,               \* position of the sync command: "idle", "processing", "done"
    fetched,          \* the messages FetchEmails returned to the running sync
    filtered,         \* ApplyBatch's output for them
    toProcess,        \* the entries of toProcess not yet handed to processEmail
    result,           \* the SyncResult of the running (or last) sync
    runs,             \* number of sync runs started
    marks,            \* number of mark-spam commands run
    feedbacks,        \* number of false-positive feedback commands run
    syncStateAtStart, \* history: the sync_state row when the run began
    runWriteFailed,   \* history: a processEmail store statement failed in the run
    repeatRun,        \* history: every entry of the run's toProcess was already stored
    emailsAtStart,    \* history: the emails table when a repeat run began
    convIDsAtStart,   \* history: the conversation ids when a repeat run began
    peWrites,         \* history: write statements issued by processEmail in the run
    spamCalls,        \* history: completed mark-spam calls per domain
    closedAttach,     \* history: the run attached an email to a closed conversation
    llm               \* history: the classifier and validator calls of the run

\* Filter.Apply on its own
VARIABLES
    fFilter,          \* the filter
    fEmail,           \* the email handed to Apply
    fResult           \* what Apply returned, NoResult before the call

\* ComputeStatus on its own
VARIABLES
    sList,            \* the emails handed to ComputeStatus
    sNow,             \* the time of the call, in ticks
    sResult           \* what ComputeStatus returned, "none" before the call

\* two Classify calls on one classifier client
VARIABLES
    cacheEnabled,     \* Client.cacheEnabled
    cache,            \* Client.cache: key -> [response, timestamp]
    cacheNow,         \* the wall clock, in ticks
    cPc,              \* position of each call: "start", "http", "decoded", "done"
    cReq,             \* the request of each call
    cStart,           \* the time each call was issued
    cResp,            \* what each call returned, or the decoded response
    httpCalls,        \* upstream POST /classify requests made so far
    cPruned           \* history: entries deleted by the prunes of setCache so far

\* the goroutines of fetchMessagesParallel and ClassifyBatchWithProgress
VARIABLES
    wPhase,           \* "fetch", "classify" or "end"
    wTotal,           \* number of inputs, one goroutine each
    wWaiting,         \* goroutines at the select on the semaphore
    wActive,          \* goroutines in the provider / classifier call
    wHolding,         \* goroutines whose call returned, semaphore slot not released yet
    wDone,            \* goroutines that returned
    wCancelled,       \* goroutines that returned ctx.Err() from the select
    wCtxDone,         \* the context is cancelled
    wPeak             \* history: most fetches in flight during the fetch phase

filterVars == <<fFilter, fEmail, fResult>>

statusVars == <<sList, sNow, sResult>>

cacheVars == <<cacheEnabled, cache, cacheNow, cPc, cReq, cStart, cResp, httpCalls, cPruned>>

workerVars ==
    <<wPhase, wTotal, wWaiting, wActive, wHolding, wDone, wCancelled, wCtxDone, wPeak>>

storeVars ==
    <<now, mailbox, faults, emails, conversations, nextConvID, syncState,
      learnedFilters, pc, fetched, filtered, toProcess, result, runs, marks,
      feedbacks, syncStateAtStart, runWriteFailed, repeatRun, emailsAtStart, convIDsAtStart,
      peWrites, spamCalls, closedAttach, llm>>

\* matchesDomainPattern on its own
VARIABLES
    dEmail,           \* the relevant address of the email
    dPattern,         \* the one pattern of the list
    dMatch            \* "match" or "no match", "none" before the call

\* Scorer.Calculate on its own
VARIABLES
    kArgs,            \* the four counts handed to Calculate
    kScore,           \* what Calculate returned, NoScore before the call
    kLast             \* history: the previous call's counts and score

\* the learner, the learned_filters table and the filter of a Tracker
VARIABLES
    lRows,            \* rows of the learned_filters table
    lFilter,          \* the filter of the Tracker that ran the latest sync
    lAtStart,         \* history: the learned_filters table when that sync began
    lSyncs,           \* number of sync runs started
    lOp,              \* history: the latest operation
    lEmail            \* history: the email of the latest learner call

\* the goroutines of one FetchEmails or ClassifyBatchWithProgress call, each
\* with its own position
VARIABLES
    gKind,            \* "fetch" or "classify"
    gAuth,            \* FetchEmails: p.service is set
    gN,               \* number of listed message ids, or of requests
    gPc,              \* the caller: "start", "collect", "returned"
    gListed,          \* history: "none", "ok" or "failed" list phase
    gW,               \* position of goroutine i: "select", "call", "report", "done"
    gCur,             \* goroutine i's local variable current
    gCount,           \* fetchedCount / classifiedCount
    gHeld,            \* semaphore slots held
    gCtxDone,         \* the context is cancelled
    gChan,            \* the buffered result channel
    gResults,         \* the caller's slice, written by index
    gErrors,          \* len(fetchErrors)
    gOutcome,         \* history: how request i ended: "none", "ok", "err", "ctx"
    gLog,             \* history: the current values handed to the progress callback
    gRet              \* what the call returned

\* the merge command on a store of its own
VARIABLES
    mEmails,          \* rows of the emails table
    mConvs,           \* rows of the conversations table
    mBefore,          \* history: both tables before the latest merge command
    mCalls            \* history: the merge commands run: target, source, outcome

\* containsWord on a text and a keyword of its own
VARIABLES
    wText,            \* the lower-cased subject or body
    wWord,            \* the lower-cased keyword
    wFound            \* "none" before the call, then "match" or "no match"

\* one ClassifyWithFallback call on a client whose cache other goroutines use
VARIABLES
    bEnabled,         \* cacheEnabled of the client
    bCache,           \* the client's cache
    bPrimary,         \* the primary provider ("" when not configured)
    bFallback,        \* the fallback provider ("" when not configured)
    bPc,              \* "start", "fallback" (before the second Classify), "returned"
    bFirst,           \* history: the first Classify: what it returned, the provider it asked
    bSecond,          \* history: the second Classify, NoCall when there was none
    bRet              \* what ClassifyWithFallback returned

\* the sync cursor and the messages a run listed but did not get
VARIABLES
    uNow,             \* the clock, in ticks
    uLastSync,        \* sync_state.last_sync_at
    uRuns,            \* number of sync runs
    uLast             \* history: the latest run: listed and fetched ids, cancelled or not

VARIABLES
    kUncertain,       \* the uncertain list of the run, as message ids
    kVerdicts,        \* the classifier's verdict for each uncertain message
    kStart,           \* batchStart of the classification loop
    kBatchResults,    \* batchResults
    kNeeds,           \* needsValidation
    kToProcess,       \* the entries the classification appends to toProcess
    kPc               \* "batches", "process", "validate", "done" or "panic"

patternVars == <<dEmail, dPattern, dMatch>>

cursorVars == <<uNow, uLastSync, uRuns, uLast>>
batchVars == <<kUncertain, kVerdicts, kStart, kBatchResults, kNeeds, kToProcess, kPc>>

fallbackVars == <<bEnabled, bCache, bPrimary, bFallback, bPc, bFirst, bSecond, bRet>>

wordVars == <<wText, wWord, wFound>>

scoreVars == <<kArgs, kScore, kLast>>

learnVars == <<lRows, lFilter, lAtStart, lSyncs, lOp, lEmail>>

poolVars ==
    <<gKind, gAuth, gN, gPc, gListed, gW, gCur, gCount, gHeld, gCtxDone, gChan, gResults,
      gErrors, gOutcome, gLog, gRet>>

mergeVars == <<mEmails, mConvs, mBefore, mCalls>>

auxVars == <<patternVars, scoreVars, learnVars, poolVars, mergeVars, wordVars, fallbackVars, cursorVars, batchVars>>

coreVars == <<storeVars, filterVars, statusVars, cacheVars, workerVars>>

\* what the actions of each stand-alone specification leave alone
patternOthers == <<coreVars, scoreVars, learnVars, poolVars, mergeVars, wordVars, fallbackVars, cursorVars, batchVars>>

scoreOthers == <<coreVars, patternVars, learnVars, poolVars, mergeVars, wordVars, fallbackVars, cursorVars, batchVars>>

learnOthers == <<coreVars, patternVars, scoreVars, poolVars, mergeVars, wordVars, fallbackVars, cursorVars, batchVars>>

poolOthers == <<coreVars, patternVars, scoreVars, learnVars, mergeVars, wordVars, fallbackVars, cursorVars, batchVars>>

mergeOthers == <<coreVars, patternVars, scoreVars, learnVars, poolVars, wordVars, fallbackVars, cursorVars, batchVars>>

wordOthers == <<coreVars, patternVars, scoreVars, learnVars, poolVars, mergeVars, fallbackVars, cursorVars, batchVars>>

fallbackOthers == <<coreVars, patternVars, scoreVars, learnVars, poolVars, mergeVars, wordVars, cursorVars, batchVars>>

cursorOthers == <<coreVars, patternVars, scoreVars, learnVars, poolVars, mergeVars, wordVars, fallbackVars, batchVars>>

batchOthers == <<coreVars, patternVars, scoreVars, learnVars, poolVars, mergeVars, wordVars, fallbackVars, cursorVars>>

vars == <<storeVars, filterVars, statusVars, cacheVars, workerVars, auxVars>>

\* bounds of the exploration
MaxTime == 3
MaxRuns == 2
MaxBatch == 2
MaxFeedbacks == 1
MaxFaults == 1

\* mark-spam commands: as many as the auto-blacklist threshold asks for
MaxMarks == autoBlacklistThreshold

\* the date of the newest message of the model's mailboxes
LatestDate == CHOOSE d \in {Mail[id].Date : id \in DOMAIN Mail} :
                  \A id \in DOMAIN Mail : Mail[id].Date <= d

NullTime == [Valid |-> FALSE, Time |-> 0]
TimeOf(t) == [Valid |-> TRUE, Time |-> t]

EmptyResult ==
    [EmailsFetched |-> 0, Errors |-> 0, ClassificationSkipped |-> FALSE,
     EmailsPendingClassify |-> 0]

\* no classifier or validator call made
NoCalls ==
    [running |-> FALSE, skip |-> FALSE, uncertain |-> 0, classify |-> <<>>,
     validate |-> <<>>, cl |-> <<>>, vl |-> <<>>, planned |-> <<>>, rejections |-> 0]

NoSyncState == [LastSyncAt |-> NullTime, EmailsProcessed |-> 0]

StoreInit(f, boxes) ==
    /\ now = LatestDate
    /\ mailbox \in boxes
    /\ faults = f
    /\ emails = {}
    /\ conversations = {}
    /\ nextConvID = 1
    /\ syncState = NoSyncState
    /\ learnedFilters = {}
    /\ pc = "idle"
    /\ fetched = <<>>
    /\ filtered = <<>>
    /\ toProcess = <<>>
    /\ result = EmptyResult
    /\ runs = 0
    /\ marks = 0
    /\ feedbacks = 0
    /\ syncStateAtStart = NoSyncState
    /\ runWriteFailed = FALSE
    /\ repeatRun = FALSE
    /\ emailsAtStart = {}
    /\ convIDsAtStart = {}
    /\ peWrites = 0
    /\ spamCalls = <<>>
    /\ closedAttach = FALSE
    /\ llm = NoCalls

\* time passes between commands
Tick ==
    /\ pc = "idle"
    /\ now < MaxTime
    /\ now' = now + 1
    /\ UNCHANGED <<mailbox, faults, emails, conversations, nextConvID, syncState,
                   learnedFilters, pc, fetched, filtered, toProcess, result, runs, marks, feedbacks,
                   syncStateAtStart, runWriteFailed, repeatRun, emailsAtStart,
                   convIDsAtStart, peWrites, spamCalls, closedAttach, llm>>
    /\ UNCHANGED <<filterVars, statusVars, cacheVars, workerVars, auxVars>>

\* ------------------------------------------------------------------------
\* SyncWithOptions, up to the processing loop
\* ------------------------------------------------------------------------

\* the messages the list phase can return: for an incremental sync, those
\* not older than the day of the last sync (buildQuery formats opts.After as
\* a date)
Listable(incremental) ==
    {id \in mailbox :
        (incremental /\ syncState.LastSyncAt.Valid)
           => Mail[id].Date \div TicksPerDay >= syncState.LastSyncAt.Time \div TicksPerDay}

\* the lists of at most n distinct elements of S
DistinctSeqs(S, n) ==
    UNION {{s \in [1..k -> S] : \A i, j \in 1..k : i # j => s[i] # s[j]} : k \in 0..n}

\* Filter.ApplyBatch
RECURSIVE ApplyBatch(_, _)
ApplyBatch(f, ids) ==
    IF ids = <<>> THEN <<>>
    ELSE <<[ID |-> Head(ids), Result |-> Apply(f, Mail[Head(ids)])]>> \o ApplyBatch(f, Tail(ids))

\* toProcess entries of the emails the filter included
IncludedToProcess(fl) ==
    LET inc == FilterIncluded(fl)
    IN [i \in 1..Len(inc) |-> [ID |-> inc[i].ID, Result |-> inc[i].Result,
                               Classified |-> FALSE, Validated |-> FALSE]]

\* a run with nothing fetched: the sync state is stamped and the run returns
SyncEmpty ==
    /\ pc = "idle"
    /\ runs < MaxRuns
    /\ runs' = runs + 1
    /\ syncStateAtStart' = syncState
    /\ syncState' = [syncState EXCEPT !.LastSyncAt = TimeOf(now)]
    /\ fetched' = <<>>
    /\ filtered' = <<>>
    /\ toProcess' = <<>>
    /\ result' = EmptyResult
    /\ runWriteFailed' = FALSE
    /\ repeatRun' = FALSE
    /\ emailsAtStart' = {}
    /\ convIDsAtStart' = {}
    /\ peWrites' = 0
    /\ pc' = "done"
    /\ UNCHANGED <<now, mailbox, faults, emails, conversations, nextConvID,
                   learnedFilters, marks, feedbacks, spamCalls, closedAttach>>
    /\ llm' = NoCalls
    /\ UNCHANGED <<filterVars, statusVars, cacheVars, workerVars, auxVars>>

\* what SyncWithOptions has computed when it reaches the processing loop,
\* for the fetched messages ids and the answers cl, vl of the classifier
SyncPlan(lf, rows, f, ids, classifierRunning, skipClassification, cl, vl) ==
    LET fl == ApplyBatch(f, ids)
        uncertain == FilterUncertain(fl)
        n == Len(uncertain)
        classify == n > 0 /\ classifierRunning /\ ~skipClassification
        skipped == ~classify /\ n > 0 /\ skipClassification
        tp == IF classify
              THEN IncludedToProcess(fl) \o ClassifiedToProcess(uncertain, cl, vl)
              ELSE IncludedToProcess(fl)
    IN [fetched |-> ids, filtered |-> fl, toProcess |-> tp,
        errors |-> IF classify THEN ClassifiedErrors(uncertain, cl, vl) ELSE 0,
        skipped |-> skipped,
        pending |-> IF skipped THEN n ELSE 0,
        learnedFilters |-> IF classify THEN ClassifiedLearn(lf, uncertain, cl, vl, 1) ELSE lf,
        repeat |-> Len(tp) > 0
                   /\ \A i \in 1..Len(tp) : \E r \in rows : r.GmailID = tp[i].ID,
        llm |-> [running |-> n > 0 /\ classifierRunning,
                 skip |-> n > 0 /\ skipClassification,
                 uncertain |-> n,
                 classify |-> IF classify THEN ClassifyCalls(uncertain) ELSE <<>>,
                 validate |-> IF classify THEN ValidateCalls(uncertain, cl) ELSE <<>>,
                 cl |-> IF classify THEN cl ELSE <<>>,
                 vl |-> IF classify THEN ValidateAnswers(uncertain, cl, vl) ELSE <<>>,
                 planned |-> tp,
                 rejections |-> IF classify THEN ClassifiedRejections(uncertain, cl, vl)
                                ELSE 0]]

\* the plans of a run that fetched ids: the classifier is there and healthy
\* or not, the options ask to skip classification or not
SyncPlansFor(lf, rows, f, ids) ==
    LET n == Len(FilterUncertain(ApplyBatch(f, ids)))
    IN {SyncPlan(lf, rows, f, ids, classifierRunning, skipClassification, cl, vl) :
           classifierRunning \in BOOLEAN, skipClassification \in BOOLEAN,
           cl \in [1..n -> ClassifyOutcomes], vl \in [1..n -> ValidateOutcomes]}

\* the plans of a run over the listable messages
SyncPlans(lf, rows, listable) ==
    LET f == SyncFilter(lf)
    IN UNION {SyncPlansFor(lf, rows, f, ids) : ids \in DistinctSeqs(listable, MaxBatch) \ {<<>>}}

\* a run that fetched messages: filter them, classify the uncertain ones and
\* build toProcess
SyncBegin ==
    /\ pc = "idle"
    /\ runs < MaxRuns
    /\ \E incremental \in BOOLEAN :
       \E plan \in SyncPlans(learnedFilters, emails, Listable(incremental)) :
          /\ fetched' = plan.fetched
          /\ filtered' = plan.filtered
          /\ toProcess' = plan.toProcess
          /\ result' = [EmailsFetched |-> Len(plan.fetched), Errors |-> plan.errors,
                         ClassificationSkipped |-> plan.skipped,
                         EmailsPendingClassify |-> plan.pending]
          /\ llm' = plan.llm
          /\ learnedFilters' = plan.learnedFilters
          /\ repeatRun' = plan.repeat
          /\ emailsAtStart' = IF plan.repeat THEN emails ELSE {}
          /\ convIDsAtStart' = IF plan.repeat THEN {c.ID : c \in conversations} ELSE {}
    /\ runs' = runs + 1
    /\ pc' = "processing"
    /\ syncStateAtStart' = syncState
    /\ runWriteFailed' = FALSE
    /\ peWrites' = 0
    /\ UNCHANGED <<now, mailbox, faults, emails, conversations, nextConvID, syncState,
                   marks, feedbacks, spamCalls, closedAttach>>
    /\ UNCHANGED <<filterVars, statusVars, cacheVars, workerVars, auxVars>>

\* ------------------------------------------------------------------------
\* processEmail and findOrCreateConversation
\* ------------------------------------------------------------------------

\* the store statements of processEmail that can fail
FailPoints ==
    IF faults > 0
    THEN {"none", "read", "CreateConversation", "CreateEmail", "IncrementEmailCount",
          "UpdateConversation"}
    ELSE {"none"}

\* findOrCreateConversation without the thread lookup
findOrCreateNoThread(convs, rows, nid, e, failAt) ==
    LET isOutbound == IsFromMe(e, UserEmail)
        groupByEmail == IF isOutbound /\ Len(e.To) > 0 THEN e.To[1].Email ELSE e.From.Email
        found == GetConversationByRecruiterEmail(convs, groupByEmail)
        c == [ID |-> nid, RecruiterEmail |-> groupByEmail,
              Direction |-> IF isOutbound THEN DirectionOutbound ELSE DirectionInbound,
              Status |-> StatusActive, LastActivityAt |-> e.Date, EmailCount |-> 0,
              Archived |-> FALSE]
    IN IF found # {}
       THEN {[conv |-> x, isNew |-> FALSE, err |-> FALSE, convs |-> convs, nid |-> nid,
              writes |-> 0] : x \in found}
       ELSE IF failAt = "CreateConversation"
       THEN {[conv |-> c, isNew |-> FALSE, err |-> TRUE, convs |-> convs, nid |-> nid,
              writes |-> 1]}
       ELSE {[conv |-> c, isNew |-> TRUE, err |-> FALSE,
              convs |-> CreateConversation(convs, c), nid |-> nid + 1, writes |-> 1]}

\* findOrCreateConversation with the recruiter-email lookup before the
\* thread lookup
findOrCreateRecruiterFirst(convs, rows, nid, e, failAt) ==
    LET isOutbound == IsFromMe(e, UserEmail)
        byThread == GetConversationByThreadID(convs, rows, e.ThreadID)
        groupByEmail == IF isOutbound /\ Len(e.To) > 0 THEN e.To[1].Email ELSE e.From.Email
        byRecruiter == GetConversationByRecruiterEmail(convs, groupByEmail)
        found == IF byRecruiter # {} THEN byRecruiter ELSE byThread
        c == [ID |-> nid, RecruiterEmail |-> groupByEmail,
              Direction |-> IF isOutbound THEN DirectionOutbound ELSE DirectionInbound,
              Status |-> StatusActive, LastActivityAt |-> e.Date, EmailCount |-> 0,
              Archived |-> FALSE]
    IN IF found # {}
       THEN {[conv |-> x, isNew |-> FALSE, err |-> FALSE, convs |-> convs, nid |-> nid,
              writes |-> 0] : x \in found}
       ELSE IF failAt = "CreateConversation"
       THEN {[conv |-> c, isNew |-> FALSE, err |-> TRUE, convs |-> convs, nid |-> nid,
              writes |-> 1]}
       ELSE {[conv |-> c, isNew |-> TRUE, err |-> FALSE,
              convs |-> CreateConversation(convs, c), nid |-> nid + 1, writes |-> 1]}

\* findOrCreateConversation: thread match, then recruiter-email match, then
\* a new conversation.  The value is the set of possible returns (the
\* queries return one of the matching rows).
findOrCreateConversation(convs, rows, nid, e, failAt) ==
    LET isOutbound == IsFromMe(e, UserEmail)
        byThread == GetConversationByThreadID(convs, rows, e.ThreadID)
        groupByEmail == IF isOutbound /\ Len(e.To) > 0 THEN e.To[1].Email ELSE e.From.Email
        byRecruiter == GetConversationByRecruiterEmail(convs, groupByEmail)
        found == IF byThread # {} THEN byThread ELSE byRecruiter
        recruiterEmail == IF isOutbound /\ Len(e.To) > 0 THEN e.To[1].Email ELSE e.From.Email
        c == [ID |-> nid, RecruiterEmail |-> recruiterEmail,
              Direction |-> IF isOutbound THEN DirectionOutbound ELSE DirectionInbound,
              Status |-> StatusActive, LastActivityAt |-> e.Date, EmailCount |-> 0,
              Archived |-> FALSE]
    IN IF found # {}
       THEN {[conv |-> x, isNew |-> FALSE, err |-> FALSE, convs |-> convs, nid |-> nid,
              writes |-> 0] : x \in found}
       ELSE IF failAt = "CreateConversation"
       THEN {[conv |-> c, isNew |-> FALSE, err |-> TRUE, convs |-> convs, nid |-> nid,
              writes |-> 1]}
       ELSE {[conv |-> c, isNew |-> TRUE, err |-> FALSE,
              convs |-> CreateConversation(convs, c), nid |-> nid + 1, writes |-> 1]}

\* what processEmail leaves behind
Outcome(rows, convs, nid, err, writeFailed, writes, attachedClosed) ==
    [emails |-> rows, conversations |-> convs, nextConvID |-> nid, err |-> err,
     writeFailed |-> writeFailed, writes |-> writes, attachedClosed |-> attachedClosed]

\* the part of processEmail after the conversation is known: insert the
\* email row, increment the count, move last_activity_at forward
attachEmail(rows, fc, pe, failAt) ==
    LET e == Mail[pe.ID]
        conv == fc.conv
        row == [GmailID |-> e.ID, ConversationID |-> conv.ID, ThreadID |-> e.ThreadID,
                Subject |-> e.Subject, FromAddress |-> e.From.Email, Date |-> e.Date,
                Direction |-> IF IsFromMe(e, UserEmail) THEN DirectionOutbound
                              ELSE DirectionInbound,
                Classification |-> pe.Result.Layer]
        rows1 == CreateEmail(rows, row)
        convs1 == IncrementEmailCount(fc.convs, conv.ID)
        closed == conv.Status = StatusClosed
    IN IF failAt = "CreateEmail" \/ ~CreateEmailOk(rows, row)
       THEN Outcome(rows, fc.convs, fc.nid, TRUE, TRUE, fc.writes + 1, FALSE)
       ELSE IF failAt = "IncrementEmailCount"
       THEN Outcome(rows1, fc.convs, fc.nid, TRUE, TRUE, fc.writes + 2, closed)
       ELSE IF e.Date > conv.LastActivityAt
       THEN IF failAt = "UpdateConversation"
            THEN Outcome(rows1, convs1, fc.nid, TRUE, TRUE, fc.writes + 3, closed)
            ELSE Outcome(rows1,
                         UpdateConversation(convs1, [conv EXCEPT !.LastActivityAt = e.Date]),
                         fc.nid, FALSE, FALSE, fc.writes + 3, closed)
       ELSE Outcome(rows1, convs1, fc.nid, FALSE, FALSE, fc.writes + 2, closed)

\* processEmail: the set of possible outcomes for one toProcess entry
processEmail(rows, convs, nid, pe, failAt) ==
    IF failAt = "read"
    THEN {Outcome(rows, convs, nid, TRUE, FALSE, 0, FALSE)}
    ELSE IF GetEmailByGmailID(rows, Mail[pe.ID].ID) # {}
    THEN {Outcome(rows, convs, nid, FALSE, FALSE, 0, FALSE)}
    ELSE {IF fc.err
          THEN Outcome(rows, convs, nid, TRUE, TRUE, fc.writes, FALSE)
          ELSE attachEmail(rows, fc, pe, failAt) :
          fc \in findOrCreateConversation(convs, rows, nid, Mail[pe.ID], failAt)}

\* one iteration of the processing loop of SyncWithOptions
ProcessEmail ==
    /\ pc = "processing"
    /\ toProcess # <<>>
    /\ \E failAt \in FailPoints :
       \E o \in processEmail(emails, conversations, nextConvID, Head(toProcess), failAt) :
          /\ emails' = o.emails
          /\ conversations' = o.conversations
          /\ nextConvID' = o.nextConvID
          /\ result' = [result EXCEPT !.Errors = @ + (IF o.err THEN 1 ELSE 0)]
          /\ runWriteFailed' = (runWriteFailed \/ o.writeFailed)
          /\ peWrites' = peWrites + o.writes
          /\ closedAttach' = (closedAttach \/ o.attachedClosed)
          /\ faults' = IF o.err THEN faults - 1 ELSE faults
    /\ toProcess' = Tail(toProcess)
    /\ UNCHANGED <<now, mailbox, syncState, learnedFilters, pc, fetched, filtered,
                   runs, marks, feedbacks, syncStateAtStart, repeatRun, emailsAtStart, convIDsAtStart,
                   spamCalls, llm>>
    /\ UNCHANGED <<filterVars, statusVars, cacheVars, workerVars, auxVars>>

\* ------------------------------------------------------------------------
\* The end of SyncWithOptions: sync state and status pass
\* ------------------------------------------------------------------------

\* the statuses updateAllStatuses can store for a conversation, closed ones
\* included in the pass
StatusOptionsNoSkip(c, rows, t, canFail) ==
    {ComputeStatus(s, UserEmail, StaleAfterDays, t) :
         s \in DateAscOrders(ListEmailsForConversation(rows, c.ID))}
    \cup (IF canFail THEN {c.Status} ELSE {})

\* the statuses updateAllStatuses can store for a conversation: closed ones
\* are skipped; a failed query or update leaves the status as it is
StatusOptions(c, rows, t, canFail) ==
    IF c.Status = StatusClosed THEN {c.Status}
    ELSE {ComputeStatus(s, UserEmail, StaleAfterDays, t) :
              s \in DateAscOrders(ListEmailsForConversation(rows, c.ID))}
         \cup (IF canFail THEN {c.Status} ELSE {})

\* the status pass over the conversations of todo: the tables it can leave
RECURSIVE StatusPass(_, _, _, _, _)
StatusPass(todo, done, rows, t, canFail) ==
    IF todo = {} THEN {done}
    ELSE LET c == CHOOSE x \in todo : TRUE
         IN UNION {StatusPass(todo \ {c}, done \cup {[c EXCEPT !.Status = st]},
                              rows, t, canFail) :
                      st \in StatusOptions(c, rows, t, canFail)}

\* updateAllStatuses: the conversation tables it can leave
updateAllStatuses(convs, rows, t, canFail) == StatusPass(convs, {}, rows, t, canFail)

\* the store failures the end of a run can see
FinishFailPoints ==
    IF faults > 0 THEN {"none", "UpdateSyncState", "updateAllStatuses"} ELSE {"none"}

\* UpdateSyncState followed by updateAllStatuses
SyncFinish ==
    /\ pc = "processing"
    /\ toProcess = <<>>
    /\ \E failAt \in FinishFailPoints :
          /\ syncState' = IF failAt = "UpdateSyncState" THEN syncState
                          ELSE [LastSyncAt |-> TimeOf(now),
                                EmailsProcessed |-> syncState.EmailsProcessed + Len(fetched)]
          /\ result' = [result EXCEPT
                           !.Errors = @ + (IF failAt = "UpdateSyncState" THEN 1 ELSE 0)]
          /\ conversations' \in updateAllStatuses(conversations, emails, now,
                                                  failAt = "updateAllStatuses")
          /\ faults' = IF failAt = "none" THEN faults ELSE faults - 1
    /\ pc' = "done"
    /\ UNCHANGED <<now, mailbox, emails, nextConvID, learnedFilters, fetched, filtered,
                   toProcess, runs, marks, feedbacks, syncStateAtStart, runWriteFailed,
                   repeatRun, emailsAtStart, convIDsAtStart, peWrites, spamCalls,
                   closedAttach, llm>>
    /\ UNCHANGED <<filterVars, statusVars, cacheVars, workerVars, auxVars>>

\* runSync prints the result and the command ends
SyncReturn ==
    /\ pc = "done"
    /\ pc' = "idle"
    /\ fetched' = <<>>
    /\ filtered' = <<>>
    /\ result' = EmptyResult
    /\ syncStateAtStart' = NoSyncState
    /\ runWriteFailed' = FALSE
    /\ repeatRun' = FALSE
    /\ emailsAtStart' = {}
    /\ convIDsAtStart' = {}
    /\ peWrites' = 0
    /\ closedAttach' = FALSE
    /\ llm' = NoCalls
    /\ UNCHANGED <<now, mailbox, faults, emails, conversations, nextConvID, syncState,
                   learnedFilters, toProcess, runs, marks, feedbacks, spamCalls>>
    /\ UNCHANGED <<filterVars, statusVars, cacheVars, workerVars, auxVars>>

\* ------------------------------------------------------------------------
\* Feedback commands
\* ------------------------------------------------------------------------

\* Tracker.MarkFalsePositive: learn from the first email of the conversation,
\* then close the conversation
MarkFalsePositive ==
    /\ pc = "idle"
    /\ feedbacks < MaxFeedbacks
    /\ \E conv \in conversations :
       \E list \in DateAscOrders(ListEmailsForConversation(emails, conv.ID)) :
       \E updateFails \in (IF faults > 0 THEN BOOLEAN ELSE {FALSE}) :
          /\ Len(list) > 0
          /\ learnedFilters' =
                LearnFromFalsePositive(learnedFilters,
                                       [From |-> Addr(list[1].FromAddress),
                                        Subject |-> list[1].Subject])
          /\ conversations' =
                IF updateFails THEN conversations
                ELSE UpdateConversation(conversations, [conv EXCEPT !.Status = StatusClosed])
          /\ faults' = IF updateFails THEN faults - 1 ELSE faults
    /\ feedbacks' = feedbacks + 1
    /\ UNCHANGED <<now, mailbox, emails, nextConvID, syncState, pc, marks, fetched,
                   filtered, toProcess, result, runs, syncStateAtStart, runWriteFailed,
                   repeatRun, emailsAtStart, convIDsAtStart, peWrites, spamCalls,
                   closedAttach, llm>>
    /\ UNCHANGED <<filterVars, statusVars, cacheVars, workerVars, auxVars>>

\* number of completed mark-spam calls recorded for a domain
SpamCallsOf(domain) == IF domain \in DOMAIN spamCalls THEN spamCalls[domain] ELSE 0

\* the statements of runMarkSpam that can fail
MarkSpamFailPoints ==
    IF faults > 0
    THEN {"none", "MarkFalsePositive", "PromoteToAutoBlacklist", "ArchiveConversation"}
    ELSE {"none"}

\* what runMarkSpam leaves behind for a conversation
markSpamOutcome(lf, convs, conv, failAt) ==
    LET domain == AddressDomain(Addr(conv.RecruiterEmail))
        lf1 == MarkFalsePositiveRow(lf, domain)
        count == GetFalsePositiveCount(lf1, domain)
        promote == count >= autoBlacklistThreshold
        lf2 == IF promote THEN PromoteToAutoBlacklist(lf1, domain) ELSE lf1
        failed == \/ failAt = "MarkFalsePositive" /\ domain # <<>>
                  \/ failAt = "PromoteToAutoBlacklist" /\ domain # <<>> /\ promote
                  \/ failAt = "ArchiveConversation"
    IN [learnedFilters |-> IF domain = <<>> \/ failAt = "MarkFalsePositive" THEN lf
                           ELSE IF failAt = "PromoteToAutoBlacklist" THEN lf1
                           ELSE lf2,
        conversations |-> IF failed THEN convs ELSE ArchiveConversation(convs, conv.ID),
        failed |-> failed,
        domain |-> domain]

\* runMarkSpam: count a false positive for the recruiter's domain, promote the
\* domain at the threshold, archive the conversation
runMarkSpam ==
    /\ pc = "idle"
    /\ marks < MaxMarks
    /\ \E conv \in conversations, failAt \in MarkSpamFailPoints :
       \E o \in {markSpamOutcome(learnedFilters, conversations, conv, failAt)} :
          /\ learnedFilters' = o.learnedFilters
          /\ conversations' = o.conversations
          /\ faults' = IF o.failed THEN faults - 1 ELSE faults
          /\ spamCalls' = IF o.domain # <<>> /\ ~o.failed
                          THEN (o.domain :> (SpamCallsOf(o.domain) + 1)) @@ spamCalls
                          ELSE spamCalls
    /\ marks' = marks + 1
    /\ UNCHANGED <<now, mailbox, emails, nextConvID, syncState, pc, feedbacks, fetched,
                   filtered, toProcess, result, runs, syncStateAtStart, runWriteFailed,
                   repeatRun, emailsAtStart, convIDsAtStart, peWrites, closedAttach, llm>>
    /\ UNCHANGED <<filterVars, statusVars, cacheVars, workerVars, auxVars>>

\* ------------------------------------------------------------------------
\* The tracker and its store
\* ------------------------------------------------------------------------

Next ==
    \/ Tick
    \/ SyncEmpty
    \/ SyncBegin
    \/ ProcessEmail
    \/ SyncFinish
    \/ SyncReturn
    \/ MarkFalsePositive
    \/ runMarkSpam

\* ------------------------------------------------------------------------
\* Filter.Apply as a function of the filter and the email
\* ------------------------------------------------------------------------

\* the filters handed to Apply: the configured lists, with or without the
\* user's address and learned domain lists
FilterInputs ==
    {[NewFilter(FilterConfig) EXCEPT !.userEmail = u,
                                     !.learnedDomainWhitelist = wl,
                                     !.learnedDomainBlacklist = bl] :
        u \in {<<>>, UserEmail},
        wl \in {<<>>, << <<"a">> >>},
        bl \in {<<>>, << <<"w">> >>, << <<"a">> >>}}

\* the emails handed to Apply
EmailInputs ==
    {[From |-> Addr(from), To |-> to, Subject |-> subject, Body |-> body, Snippet |-> <<>>] :
        from \in {<<"r", "@", "w">>, <<"r", "@", "a">>, <<"n", "@", "b">>, <<"M", "@", "u">>,
                  <<"r">>},
        to \in {<<>>, <<Addr(<<"r", "@", "w">>)>>, <<Addr(<<"r", "@", "a">>)>>},
        subject \in {<<>>, <<"j">>, <<"z", "z">>},
        body \in {<<>>, <<"x">>}}

FilterInit ==
    /\ fFilter \in FilterInputs
    /\ fEmail \in EmailInputs
    /\ fResult = NoResult

FilterIdle ==
    /\ fFilter = NewFilter(FilterConfig)
    /\ fEmail = [From |-> Addr(<<>>), To |-> <<>>, Subject |-> <<>>, Body |-> <<>>,
                 Snippet |-> <<>>]
    /\ fResult = NoResult

\* the call of Filter.Apply
FilterApply ==
    /\ fResult = NoResult
    /\ fResult' = Apply(fFilter, fEmail)
    /\ UNCHANGED <<fFilter, fEmail>>
    /\ UNCHANGED <<storeVars, statusVars, cacheVars, workerVars, auxVars>>

FilterNext == FilterApply

\* ------------------------------------------------------------------------
\* ComputeStatus as a function of the emails and the time of the call
\* ------------------------------------------------------------------------

MaxStatusTime == 4
MaxStatusEmails == 2

\* the stored emails handed to ComputeStatus
StatusEmails ==
    {[FromAddress |-> from, Date |-> d] :
        from \in {<<"M", "@", "u">>, <<"r", "@", "a">>}, d \in 0..MaxStatusTime}

StatusInit ==
    /\ sNow \in 0..MaxStatusTime
    /\ sList \in UNION {[1..n -> StatusEmails] : n \in 0..MaxStatusEmails}
    /\ \A i \in 1..Len(sList) : sList[i].Date <= sNow
    /\ sResult = "none"

StatusIdle ==
    /\ sNow = 0
    /\ sList = <<>>
    /\ sResult = "none"

\* the call of ComputeStatus
StatusCompute ==
    /\ sResult = "none"
    /\ sResult' = ComputeStatus(sList, UserEmail, StaleAfterDays, sNow)
    /\ UNCHANGED <<sList, sNow>>
    /\ UNCHANGED <<storeVars, filterVars, cacheVars, workerVars, auxVars>>

StatusNext == StatusCompute

\* ------------------------------------------------------------------------
\* The classifier client's response cache
\* ------------------------------------------------------------------------

MaxCacheTime == 3

Callers == {"c1", "c2"}

\* the requests a call can carry: subject and from address
Requests ==
    {[EmailSubject |-> subject, EmailFrom |-> <<"r", "@", "a">>] :
        subject \in {<<"j">>, <<"j", "|">>, <<"1">>}}

\* Client.cacheKey: the digest of "subject|from" (the digest is taken to be
\* injective, so the key is the formatted string)
cacheKey(req) == req.EmailSubject \o <<"|">> \o req.EmailFrom

\* cacheExpiry, 24 hours, in ticks
cacheExpiry == TicksPerDay

\* an entry older than cacheExpiry
Expired(entry, t) == t - entry.timestamp > cacheExpiry

\* getCached without the expiry test
getCachedNoExpiry(enabled, c, key, t) ==
    IF ~enabled THEN "miss"
    ELSE IF key \notin DOMAIN c THEN "miss"
    ELSE c[key].response

\* Client.getCached: the cached response, or "miss"
getCached(enabled, c, key, t) ==
    IF ~enabled THEN "miss"
    ELSE IF key \notin DOMAIN c THEN "miss"
    ELSE IF t - c[key].timestamp > cacheExpiry THEN "miss"
    ELSE c[key].response

\* the size above which setCache prunes
pruneThreshold == 1000

\* Client.setCache: store the entry, then, when the map has more than 1000
\* entries, delete the expired ones
setCache(enabled, c, key, response, t) ==
    IF ~enabled THEN c
    ELSE LET stored == (key :> [response |-> response, timestamp |-> t]) @@ c
         IN IF Cardinality(DOMAIN stored) > pruneThreshold
            THEN [k \in {x \in DOMAIN stored : ~Expired(stored[x], t)} |-> stored[k]]
            ELSE stored

\* decimal digits of a number, as fmt prints them
DigitChars == <<"0", "1", "2", "3", "4", "5", "6", "7", "8", "9">>

RECURSIVE Itoa(_)
Itoa(n) == IF n < 10 THEN <<DigitChars[n + 1]>>
           ELSE Append(Itoa(n \div 10), DigitChars[(n % 10) + 1])

\* a cache that earlier calls filled with n entries for other subjects, all
\* stored at time 0
FilledCache(n) ==
    [k \in {cacheKey([EmailSubject |-> Itoa(i), EmailFrom |-> <<"r", "@", "a">>]) : i \in 1..n}
        |-> [response |-> "not job", timestamp |-> 0]]

\* the sizes of the cache a behaviour starts with: empty, and at the edge
\* of the prune
CacheSizes == {0, pruneThreshold}

CacheInit ==
    /\ cacheEnabled \in BOOLEAN
    /\ cache \in {FilledCache(n) : n \in CacheSizes}
    /\ cacheNow = 0
    /\ cPruned = 0
    /\ cPc = [c \in Callers |-> "start"]
    /\ cReq \in [Callers -> Requests]
    /\ cStart = [c \in Callers |-> 0]
    /\ cResp = [c \in Callers |-> "none"]
    /\ httpCalls = 0

CacheIdle ==
    /\ cacheEnabled = FALSE
    /\ cache = <<>>
    /\ cacheNow = 0
    /\ cPruned = 0
    /\ cPc = [c \in Callers |-> "done"]
    /\ cReq = [c \in Callers |-> [EmailSubject |-> <<>>, EmailFrom |-> <<>>]]
    /\ cStart = [c \in Callers |-> 0]
    /\ cResp = [c \in Callers |-> "none"]
    /\ httpCalls = 0

CacheTick ==
    /\ cacheNow < MaxCacheTime
    /\ cacheNow' = cacheNow + 1
    /\ UNCHANGED <<cacheEnabled, cache, cPc, cReq, cStart, cResp, httpCalls, cPruned>>
    /\ UNCHANGED <<storeVars, filterVars, statusVars, workerVars, auxVars>>

\* Classify, up to the cache lookup: a hit returns the cached response
ClassifyLookup(c) ==
    /\ cPc[c] = "start"
    /\ cStart' = [cStart EXCEPT ![c] = cacheNow]
    /\ IF getCached(cacheEnabled, cache, cacheKey(cReq[c]), cacheNow) = "miss"
       THEN /\ cPc' = [cPc EXCEPT ![c] = "http"]
            /\ cResp' = cResp
       ELSE /\ cPc' = [cPc EXCEPT ![c] = "done"]
            /\ cResp' = [cResp EXCEPT
                            ![c] = getCached(cacheEnabled, cache, cacheKey(cReq[c]), cacheNow)]
    /\ UNCHANGED <<cacheEnabled, cache, cacheNow, cReq, httpCalls, cPruned>>
    /\ UNCHANGED <<storeVars, filterVars, statusVars, workerVars, auxVars>>

\* Classify, the upstream request: an error is returned to the caller, a
\* response is decoded
ClassifyHTTP(c) ==
    /\ cPc[c] = "http"
    /\ httpCalls' = httpCalls + 1
    /\ \E answer \in {"error", "job", "not job"} :
          /\ cResp' = [cResp EXCEPT ![c] = answer]
          /\ cPc' = [cPc EXCEPT ![c] = IF answer = "error" THEN "done" ELSE "decoded"]
    /\ UNCHANGED <<cacheEnabled, cache, cacheNow, cReq, cStart, cPruned>>
    /\ UNCHANGED <<storeVars, filterVars, statusVars, workerVars, auxVars>>

\* Classify, after decoding: store the response and return it
ClassifyStore(c) ==
    /\ cPc[c] = "decoded"
    /\ cache' = setCache(cacheEnabled, cache, cacheKey(cReq[c]), cResp[c], cacheNow)
    /\ cPruned' = cPruned + Cardinality(DOMAIN cache \ DOMAIN cache')
    /\ cPc' = [cPc EXCEPT ![c] = "done"]
    /\ UNCHANGED <<cacheEnabled, cacheNow, cReq, cStart, cResp, httpCalls>>
    /\ UNCHANGED <<storeVars, filterVars, statusVars, workerVars, auxVars>>

CacheNext ==
    \/ CacheTick
    \/ \E c \in Callers : ClassifyLookup(c)
    \/ \E c \in Callers : ClassifyHTTP(c)
    \/ \E c \in Callers : ClassifyStore(c)

\* ------------------------------------------------------------------------
\* The goroutines of fetchMessagesParallel and ClassifyBatchWithProgress
\* ------------------------------------------------------------------------

\* inputs beyond the semaphore's capacity that the model explores
MaxExtraInputs == 1

\* concurrentFetches of the gmail provider
concurrentFetches == 10

\* concurrentClassifications of the classifier client
concurrentClassifications == 5

\* the constant the semaphore of the phase is made with
Limit(phase) == IF phase = "fetch" THEN concurrentFetches ELSE concurrentClassifications

\* a semaphore made as large as the input
SemCapacityOfInput(phase, total) == total

\* a semaphore made without a buffer: a send blocks for want of a receiver
SemCapacityUnbuffered(phase, total) == 0

\* sem := make(chan struct{}, concurrentFetches), and likewise for the classifier
SemCapacity(phase, total) == Limit(phase)

WorkerInit ==
    /\ wPhase = "fetch"
    /\ wTotal \in 0..(concurrentFetches + MaxExtraInputs)
    /\ wWaiting = wTotal
    /\ wActive = 0
    /\ wHolding = 0
    /\ wDone = 0
    /\ wCancelled = 0
    /\ wCtxDone = FALSE
    /\ wPeak = 0

WorkerIdle ==
    /\ wPhase = "end"
    /\ wTotal = 0
    /\ wWaiting = 0
    /\ wActive = 0
    /\ wHolding = 0
    /\ wDone = 0
    /\ wCancelled = 0
    /\ wCtxDone = FALSE
    /\ wPeak = 0

\* a goroutine's select takes the semaphore case: it starts its call
WorkerAcquire ==
    /\ wPhase \in {"fetch", "classify"}
    /\ wWaiting > 0
    /\ wActive + wHolding < SemCapacity(wPhase, wTotal)
    /\ wWaiting' = wWaiting - 1
    /\ wActive' = wActive + 1
    /\ wPeak' = IF wPhase = "fetch" /\ wActive + 1 > wPeak THEN wActive + 1 ELSE wPeak
    /\ UNCHANGED <<wPhase, wTotal, wHolding, wDone, wCancelled, wCtxDone>>
    /\ UNCHANGED <<storeVars, filterVars, statusVars, cacheVars, auxVars>>

\* a goroutine's select takes the ctx.Done case: it sends ctx.Err() and returns
WorkerCancelled ==
    /\ wPhase \in {"fetch", "classify"}
    /\ wWaiting > 0
    /\ wCtxDone
    /\ wWaiting' = wWaiting - 1
    /\ wCancelled' = wCancelled + 1
    /\ UNCHANGED <<wPhase, wTotal, wActive, wHolding, wDone, wCtxDone, wPeak>>
    /\ UNCHANGED <<storeVars, filterVars, statusVars, cacheVars, auxVars>>

\* a goroutine's call returns (a message, a response or an error); the result
\* is sent to the buffered channel
WorkerCallReturns ==
    /\ wActive > 0
    /\ wActive' = wActive - 1
    /\ wHolding' = wHolding + 1
    /\ UNCHANGED <<wPhase, wTotal, wWaiting, wDone, wCancelled, wCtxDone, wPeak>>
    /\ UNCHANGED <<storeVars, filterVars, statusVars, cacheVars, auxVars>>

\* a goroutine returns: the deferred receive frees its semaphore slot
WorkerRelease ==
    /\ wHolding > 0
    /\ wHolding' = wHolding - 1
    /\ wDone' = wDone + 1
    /\ UNCHANGED <<wPhase, wTotal, wWaiting, wActive, wCancelled, wCtxDone, wPeak>>
    /\ UNCHANGED <<storeVars, filterVars, statusVars, cacheVars, auxVars>>

\* the caller's context is cancelled
CtxCancel ==
    /\ wPhase \in {"fetch", "classify"}
    /\ ~wCtxDone
    /\ wCtxDone' = TRUE
    /\ UNCHANGED <<wPhase, wTotal, wWaiting, wActive, wHolding, wDone, wCancelled, wPeak>>
    /\ UNCHANGED <<storeVars, filterVars, statusVars, cacheVars, auxVars>>

\* every goroutine returned: wg.Wait() ends, the results are collected and
\* the sync goes on to the classification batch, or ends
PoolFinish ==
    /\ wPhase \in {"fetch", "classify"}
    /\ wDone + wCancelled = wTotal
    /\ \/ /\ wPhase = "fetch"
          /\ wPhase' = "classify"
          /\ wTotal' \in 0..(concurrentClassifications + MaxExtraInputs)
          /\ wWaiting' = wTotal'
       \/ /\ wPhase = "classify"
          /\ wPhase' = "end"
          /\ wTotal' = wTotal
          /\ wWaiting' = 0
    /\ wDone' = 0
    /\ wCancelled' = 0
    /\ UNCHANGED <<wActive, wHolding, wCtxDone, wPeak>>
    /\ UNCHANGED <<storeVars, filterVars, statusVars, cacheVars, auxVars>>

WorkerNext ==
    \/ WorkerAcquire
    \/ WorkerCancelled
    \/ WorkerCallReturns
    \/ WorkerRelease
    \/ CtxCancel
    \/ PoolFinish

\* ------------------------------------------------------------------------
\* One parallel fetch or classification batch, goroutine by goroutine
\* ------------------------------------------------------------------------

MaxPool == 3

\* a result sent on the channel: the index, whose outcome it carries (the
\* message or response of that input, -1 for none), and the error
BatchResultNoIndex(index, value, err) == [Index |-> 0, Value |-> value, Error |-> err]

BatchResult(index, value, err) == [Index |-> index, Value |-> value, Error |-> err]

\* the zero value of a slot of the result slice
ZeroResult == [Index |-> 0, Value |-> -1, Error |-> "nil"]

\* the indices of a slice of length n
Indices(n) == 0..(n - 1)

\* validEmails with the zero-value emails left in
AllEmails(results, n) ==
    [k \in 1..n |-> results[k - 1].Value]

\* fetchMessagesParallel's validEmails: the emails with an ID, in index order
RECURSIVE ValidEmails(_, _)
ValidEmails(results, n) ==
    IF n = 0 THEN <<>>
    ELSE IF results[n - 1].Value # -1
         THEN Append(ValidEmails(results, n - 1), results[n - 1].Value)
         ELSE ValidEmails(results, n - 1)

NoReturn == [emails |-> <<>>, results |-> <<>>, err |-> "none"]

PoolStartState(kind, auth, n) ==
    /\ gKind = kind
    /\ gAuth = auth
    /\ gN = n
    /\ gPc = "start"
    /\ gListed = "none"
    /\ gW = [i \in Indices(n) |-> "select"]
    /\ gCur = [i \in Indices(n) |-> 0]
    /\ gCount = 0
    /\ gHeld = 0
    /\ gCtxDone = FALSE
    /\ gChan = <<>>
    /\ gResults = [i \in Indices(n) |-> ZeroResult]
    /\ gErrors = 0
    /\ gOutcome = [i \in Indices(n) |-> "none"]
    /\ gLog = <<>>
    /\ gRet = NoReturn

PoolInit ==
    \E kind \in {"fetch", "classify"}, auth \in BOOLEAN, n \in 0..MaxPool :
        /\ kind = "classify" => auth
        /\ PoolStartState(kind, auth, n)

PoolIdle == PoolStartState("classify", TRUE, 0)

\* FetchEmails up to the call of fetchMessagesParallel: no service, a
\* failing list request, no ids, or the initial progress report
FetchList ==
    /\ gKind = "fetch"
    /\ gPc = "start"
    /\ \/ /\ ~gAuth
          /\ gRet' = [NoReturn EXCEPT !.err = "not authenticated"]
          /\ gPc' = "returned"
          /\ UNCHANGED <<gListed, gLog>>
       \/ /\ gAuth
          /\ gListed' = "failed"
          /\ gRet' = [NoReturn EXCEPT !.err = "failed to list messages"]
          /\ gPc' = "returned"
          /\ UNCHANGED gLog
       \/ /\ gAuth
          /\ gListed' = "ok"
          /\ IF gN = 0
             THEN /\ gRet' = [NoReturn EXCEPT !.err = "nil"]
                  /\ gPc' = "returned"
                  /\ UNCHANGED gLog
             ELSE /\ gLog' = <<0>>
                  /\ gPc' = "collect"
                  /\ UNCHANGED gRet
    /\ UNCHANGED <<gKind, gAuth, gN, gW, gCur, gCount, gHeld, gCtxDone, gChan, gResults,
                   gErrors, gOutcome>>
    /\ UNCHANGED poolOthers

\* ClassifyBatchWithProgress up to the launch of the goroutines
ClassifyStart ==
    /\ gKind = "classify"
    /\ gPc = "start"
    /\ gLog' = <<0>>
    /\ gPc' = "collect"
    /\ UNCHANGED <<gKind, gAuth, gN, gListed, gW, gCur, gCount, gHeld, gCtxDone, gChan,
                   gResults, gErrors, gOutcome, gRet>>
    /\ UNCHANGED poolOthers

\* goroutine i at the select: a semaphore slot, or the cancelled context
GoSelect(i) ==
    /\ gPc = "collect"
    /\ gW[i] = "select"
    /\ \/ /\ gHeld < Limit(gKind)
          /\ gHeld' = gHeld + 1
          /\ gW' = [gW EXCEPT ![i] = "call"]
          /\ UNCHANGED <<gChan, gOutcome>>
       \/ /\ gCtxDone
          /\ gChan' = Append(gChan, BatchResult(i, -1, "ctx"))
          /\ gOutcome' = [gOutcome EXCEPT ![i] = "ctx"]
          /\ gW' = [gW EXCEPT ![i] = "done"]
          /\ UNCHANGED gHeld
    /\ UNCHANGED <<gKind, gAuth, gN, gPc, gListed, gCur, gCount, gCtxDone, gResults,
                   gErrors, gLog, gRet>>
    /\ UNCHANGED poolOthers

\* goroutine i's provider or classifier call returns; a failed fetch sends
\* its error and returns, every other call takes the next count
GoCall(i) ==
    /\ gPc = "collect"
    /\ gW[i] = "call"
    /\ \E ok \in BOOLEAN :
          /\ gOutcome' = [gOutcome EXCEPT ![i] = IF ok THEN "ok" ELSE "err"]
          /\ IF gKind = "fetch" /\ ~ok
             THEN /\ gChan' = Append(gChan, BatchResult(i, -1, "err"))
                  /\ gHeld' = gHeld - 1
                  /\ gW' = [gW EXCEPT ![i] = "done"]
                  /\ UNCHANGED <<gCount, gCur>>
             ELSE /\ gCount' = gCount + 1
                  /\ gCur' = [gCur EXCEPT ![i] = gCount + 1]
                  /\ gW' = [gW EXCEPT ![i] = "report"]
                  /\ UNCHANGED <<gChan, gHeld>>
    /\ UNCHANGED <<gKind, gAuth, gN, gPc, gListed, gCtxDone, gResults, gErrors, gLog, gRet>>
    /\ UNCHANGED poolOthers

\* goroutine i calls the progress callback with its current, sends its
\* result and returns
GoReport(i) ==
    /\ gPc = "collect"
    /\ gW[i] = "report"
    /\ gLog' = Append(gLog, gCur[i])
    /\ gChan' = Append(gChan, IF gOutcome[i] = "ok" THEN BatchResult(i, i, "nil")
                               ELSE BatchResult(i, -1, "err"))
    /\ gHeld' = gHeld - 1
    /\ gW' = [gW EXCEPT ![i] = "done"]
    /\ UNCHANGED <<gKind, gAuth, gN, gPc, gListed, gCur, gCount, gCtxDone, gResults,
                   gErrors, gOutcome, gRet>>
    /\ UNCHANGED poolOthers

\* the caller cancels the context
GoCancel ==
    /\ gPc = "collect"
    /\ ~gCtxDone
    /\ gCtxDone' = TRUE
    /\ UNCHANGED <<gKind, gAuth, gN, gPc, gListed, gW, gCur, gCount, gHeld, gChan,
                   gResults, gErrors, gOutcome, gLog, gRet>>
    /\ UNCHANGED poolOthers

\* one iteration of the loop over the channel: the classifier stores every
\* result by its index, the fetcher counts an error or stores the email
PoolCollect ==
    /\ gPc = "collect"
    /\ gChan # <<>>
    /\ gChan' = Tail(gChan)
    /\ IF gKind = "fetch" /\ Head(gChan).Error # "nil"
       THEN /\ gErrors' = gErrors + 1
            /\ UNCHANGED gResults
       ELSE /\ gResults' = [gResults EXCEPT ![Head(gChan).Index] = Head(gChan)]
            /\ UNCHANGED gErrors
    /\ UNCHANGED <<gKind, gAuth, gN, gPc, gListed, gW, gCur, gCount, gHeld, gCtxDone,
                   gOutcome, gLog, gRet>>
    /\ UNCHANGED poolOthers

\* the channel is closed and drained: the call returns
PoolReturn ==
    /\ gPc = "collect"
    /\ \A i \in Indices(gN) : gW[i] = "done"
    /\ gChan = <<>>
    /\ gRet' = IF gKind = "fetch"
               THEN [NoReturn EXCEPT !.emails = ValidEmails(gResults, gN), !.err = "nil"]
               ELSE [NoReturn EXCEPT !.results = [k \in 1..gN |-> gResults[k - 1]],
                                     !.err = "nil"]
    /\ gPc' = "returned"
    /\ UNCHANGED <<gKind, gAuth, gN, gListed, gW, gCur, gCount, gHeld, gCtxDone, gChan,
                   gResults, gErrors, gOutcome, gLog>>
    /\ UNCHANGED poolOthers

PoolNext ==
    \/ FetchList
    \/ ClassifyStart
    \/ \E i \in Indices(gN) : GoSelect(i)
    \/ \E i \in Indices(gN) : GoCall(i)
    \/ \E i \in Indices(gN) : GoReport(i)
    \/ GoCancel
    \/ PoolCollect
    \/ PoolReturn

\* ------------------------------------------------------------------------
\* The merge command
\* ------------------------------------------------------------------------

MaxMerges == 2
MaxMergeDate == 2

\* the conversation ids in the store, and the identifiers the command is
\* given (one of them names no conversation)
MergeConvIDs == {1, 2, 3}

MergeIdentifiers == MergeConvIDs \cup {4}

\* the email ids in the store
MergeEmailIDs == {"e1", "e2", "e3"}

\* db.Transaction without the rollback: the statements before the failing
\* one stay applied
TransactionNoRollback(before, steps, failAt) ==
    IF failAt = 0 \/ failAt = 1 THEN before
    ELSE IF failAt > Len(steps) THEN steps[Len(steps)]
    ELSE steps[failAt - 1]

\* db.Transaction: BeginTx, the statements of fn, Commit. steps[k] is the
\* store after fn's k-th statement; failAt = 0 is a failing BeginTx,
\* failAt = k a failing k-th statement (Rollback), failAt = Len(steps) + 1 a
\* failing Commit, failAt = Len(steps) + 2 no failure
Transaction(before, steps, failAt) ==
    IF failAt = Len(steps) + 2 THEN steps[Len(steps)] ELSE before

\* the greatest date of a non-empty set of rows
MaxDate(rows) == CHOOSE d \in {r.Date : r \in rows} : \A r \in rows : r.Date <= d

\* the statements of MergeConversations(targetID, sourceID): reassign the
\* source's emails, recompute the target's email_count and last_activity_at,
\* delete the source row
MergeSteps(store, targetID, sourceID) ==
    LET moved == {IF r.ConversationID = sourceID THEN [r EXCEPT !.ConversationID = targetID]
                  ELSE r : r \in store.emails}
        joined == {r \in moved : r.ConversationID = targetID}
        recomputed == {IF c.ID = targetID
                       THEN [c EXCEPT !.EmailCount = Cardinality(joined),
                                      !.LastActivityAt = IF joined = {} THEN @
                                                         ELSE MaxDate(joined)]
                       ELSE c : c \in store.convs}
    IN <<[emails |-> moved, convs |-> store.convs],
         [emails |-> moved, convs |-> recomputed],
         [emails |-> moved, convs |-> {c \in recomputed : c.ID # sourceID}]>>

\* MergeConversations: the three statements in one transaction
MergeConversations(store, targetID, sourceID, failAt) ==
    Transaction(store, MergeSteps(store, targetID, sourceID), failAt)

\* the stores the merge command can find: every email in some conversation,
\* email_count and last_activity_at as attaching left them, email_count one
\* short where a later UpdateConversation overwrote the increment
MergeStores ==
    {[emails |-> {[ID |-> e, ConversationID |-> a[e], Date |-> d[e]] : e \in MergeEmailIDs},
      convs |-> {[ID |-> c,
                  EmailCount |-> IF c \in short /\ Cardinality({e \in MergeEmailIDs : a[e] = c}) > 1
                                 THEN Cardinality({e \in MergeEmailIDs : a[e] = c}) - 1
                                 ELSE Cardinality({e \in MergeEmailIDs : a[e] = c}),
                  LastActivityAt |-> IF {e \in MergeEmailIDs : a[e] = c} = {} THEN 0
                                     ELSE CHOOSE x \in {d[e] : e \in {y \in MergeEmailIDs : a[y] = c}} :
                                              \A e \in {y \in MergeEmailIDs : a[y] = c} : d[e] <= x] :
                 c \in MergeConvIDs}] :
        a \in [MergeEmailIDs -> MergeConvIDs],
        d \in {[e \in MergeEmailIDs |-> IF e = "e1" THEN 0 ELSE IF e = "e2" THEN x ELSE MaxMergeDate] :
                  x \in 0..MaxMergeDate},
        short \in {{}, {1}}}

MergeInit ==
    /\ \E st \in MergeStores :
          /\ mEmails = st.emails
          /\ mConvs = st.convs
          /\ mBefore = st
    /\ mCalls = <<>>

MergeIdle ==
    /\ mEmails = {}
    /\ mConvs = {}
    /\ mBefore = [emails |-> {}, convs |-> {}]
    /\ mCalls = <<>>

\* findConversation by id (nil when no row has it)
FindConversation(convs, id) == {c \in convs : c.ID = id}

\* runMerge(id1, id2): both conversations must exist and differ; then
\* MergeConversations(conv1.ID, conv2.ID)
runMerge(store, id1, id2, failAt) ==
    IF FindConversation(store.convs, id1) = {} \/ FindConversation(store.convs, id2) = {}
    THEN [store |-> store, outcome |-> "not found"]
    ELSE IF id1 = id2
    THEN [store |-> store, outcome |-> "self"]
    ELSE [store |-> MergeConversations(store, id1, id2, failAt),
          outcome |-> IF failAt = Len(MergeSteps(store, id1, id2)) + 2 THEN "merged"
                      ELSE "merge failed"]

\* the merge command
RunMerge ==
    /\ Len(mCalls) < MaxMerges
    /\ \E id1, id2 \in MergeIdentifiers :
       \E failAt \in 0..(Len(MergeSteps([emails |-> mEmails, convs |-> mConvs], id1, id2)) + 2) :
          LET out == runMerge([emails |-> mEmails, convs |-> mConvs], id1, id2, failAt)
          IN /\ mEmails' = out.store.emails
             /\ mConvs' = out.store.convs
             /\ mCalls' = Append(mCalls, [target |-> id1, source |-> id2,
                                          outcome |-> out.outcome])
    /\ mBefore' = [emails |-> mEmails, convs |-> mConvs]
    /\ UNCHANGED mergeOthers

MergeNext == RunMerge

\* ------------------------------------------------------------------------
\* The learner, approval and the filter a sync run loads
\* ------------------------------------------------------------------------

MaxSyncs == 2

\* the emails handed to the learner: a company domain with a recruiting
\* phrase in the subject, a common mail domain, an ATS domain, an ATS domain
\* behind a mail prefix
LearnEmails ==
    {[From |-> Addr(<<"r", "@", "a", "c", ".", "c", "o">>),
      Subject |-> <<"Q", "u", "i", "c", "k", " ", "c", "a", "l", "l">>],
     [From |-> Addr(<<"x", "@", "G", "m", "a", "i", "l", ".", "c", "o", "m">>),
      Subject |-> <<"h", "i">>],
     [From |-> Addr(<<"n", "@", "g", "r", "e", "e", "n", "h", "o", "u", "s", "e", ".", "i", "o">>),
      Subject |-> <<>>],
     [From |-> Addr(<<"j", "@", "m", "a", "i", "l", ".", "l", "e", "v", "e", "r", ".", "c", "o">>),
      Subject |-> <<>>]}

\* the emails of conversations the user marks as spam
SpamEmails == {e \in LearnEmails : e.Subject # <<>>}

NoEmail == [From |-> Addr(<<>>), Subject |-> <<>>]

LearnInit ==
    /\ lRows = {}
    /\ lFilter = NewFilter(FilterConfig)
    /\ lAtStart = {}
    /\ lSyncs = 0
    /\ lOp = "none"
    /\ lEmail = NoEmail

LearnIdle == LearnInit

\* processEmail's call of LearnFromEmail with the classifier's confidence
LearnSuggest ==
    /\ \E e \in LearnEmails, confidence \in {Rat(6, 10), Rat(9, 10)} :
          /\ lRows' = LearnFromEmail(lRows, e, confidence)
          /\ lEmail' = e
    /\ lOp' = "learn"
    /\ UNCHANGED <<lFilter, lAtStart, lSyncs>>
    /\ UNCHANGED learnOthers

\* LearnFromFeedback for a false positive
LearnSpam ==
    /\ \E e \in SpamEmails :
          /\ lRows' = LearnFromFalsePositive(lRows, e)
          /\ lEmail' = e
    /\ lOp' = "spam"
    /\ UNCHANGED <<lFilter, lAtStart, lSyncs>>
    /\ UNCHANGED learnOthers

\* MarkFalseNegative: LearnFromFeedback for a false negative
LearnMissed ==
    /\ \E e \in LearnEmails :
          /\ lRows' = LearnFromFalseNegative(lRows, [e EXCEPT !.Subject = <<>>])
          /\ lEmail' = e
    /\ lOp' = "missed"
    /\ UNCHANGED <<lFilter, lAtStart, lSyncs>>
    /\ UNCHANGED learnOthers

\* config filters approve <id>
LearnApprove ==
    /\ \E f \in lRows : lRows' = ApproveLearnedFilter(lRows, f)
    /\ lOp' = "approve"
    /\ lEmail' = NoEmail
    /\ UNCHANGED <<lFilter, lAtStart, lSyncs>>
    /\ UNCHANGED learnOthers

\* config filters reject <id>
LearnDelete ==
    /\ \E f \in lRows : lRows' = DeleteLearnedFilter(lRows, f)
    /\ lOp' = "delete"
    /\ lEmail' = NoEmail
    /\ UNCHANGED <<lFilter, lAtStart, lSyncs>>
    /\ UNCHANGED learnOthers

\* the sync command: a new filter, loadLearnedFilters, a new Tracker, and the
\* start of its SyncWithOptions
LearnRunSync ==
    /\ lSyncs < MaxSyncs
    /\ lSyncs' = lSyncs + 1
    /\ lFilter' = SyncStartFilter(loadLearnedFilters(lRows, NewFilter(FilterConfig)), lRows)
    /\ lAtStart' = lRows
    /\ lOp' = "sync"
    /\ lEmail' = NoEmail
    /\ UNCHANGED lRows
    /\ UNCHANGED learnOthers

\* the start of another SyncWithOptions on the Tracker of the latest sync
LearnSyncAgain ==
    /\ lSyncs > 0
    /\ lSyncs < MaxSyncs
    /\ lSyncs' = lSyncs + 1
    /\ lFilter' = SyncStartFilter(lFilter, lRows)
    /\ lAtStart' = lRows
    /\ lOp' = "sync again"
    /\ lEmail' = NoEmail
    /\ UNCHANGED lRows
    /\ UNCHANGED learnOthers

\* the learner and the sync command
LearnNext ==
    \/ LearnSuggest
    \/ LearnSpam
    \/ LearnMissed
    \/ LearnApprove
    \/ LearnDelete
    \/ LearnRunSync

\* the same with a Tracker that runs more than one sync
TrackerNext ==
    \/ LearnSuggest
    \/ LearnSpam
    \/ LearnMissed
    \/ LearnApprove
    \/ LearnDelete
    \/ LearnRunSync
    \/ LearnSyncAgain

\* ------------------------------------------------------------------------
\* matchesDomainPattern as a function of the address and the pattern
\* ------------------------------------------------------------------------

\* the relevant addresses handed to the pattern loop
PatternEmails ==
    {<<"r", "@", "a", ".", "b">>, <<"R", "@", "A", ".", "B">>,
     <<"r", "@", "x", ".", "a", ".", "b">>, <<"r", "@", "x", "a", ".", "b">>,
     <<"r", "@", "a", ".", "b", ".", "c">>, <<"n", "@", "c", ".", "d">>,
     <<"r", "@", "a">>, <<"r">>}

\* the patterns of the configured or learned list
PatternInputs ==
    {<<"a", ".", "b">>, <<"A", ".", "B">>, <<"a", ".", "b", ".">>, <<"c", ".", "d">>,
     <<"a">>, <<"x", "a">>, <<"n", "@">>, <<"r", "@", "a", ".", "b">>}

PatternInit ==
    /\ dEmail \in PatternEmails
    /\ dPattern \in PatternInputs
    /\ dMatch = "none"

PatternIdle ==
    /\ dEmail = <<>>
    /\ dPattern = <<>>
    /\ dMatch = "none"

\* checkDomainBlacklist's loop over a list of the one pattern, for an inbound
\* email from dEmail: no match when the address has no domain
PatternMatch ==
    /\ dMatch = "none"
    /\ dMatch' = IF /\ AddressDomain(Addr(dEmail)) # <<>>
                    /\ matchesDomainPattern(AddressDomain(Addr(dEmail)), ToLower(dEmail),
                                            ToLower(dPattern))
                 THEN "match" ELSE "no match"
    /\ UNCHANGED <<dEmail, dPattern>>
    /\ UNCHANGED patternOthers

PatternNext == PatternMatch

\* ------------------------------------------------------------------------
\* Scorer.Calculate as a function of the match counts
\* ------------------------------------------------------------------------

MaxKeywords == 3

NoScore == [num |-> 0, den |-> 0]

\* the counts scoreKeywords can hand to Calculate: matches of a list are at
\* most its length
ScoreInputs ==
    {a \in [subjectMatches : 0..MaxKeywords, totalSubjectKeywords : 0..MaxKeywords,
            bodyMatches : 0..MaxKeywords, totalBodyKeywords : 0..MaxKeywords] :
        a.subjectMatches <= a.totalSubjectKeywords /\ a.bodyMatches <= a.totalBodyKeywords}

ScoreInit ==
    /\ kArgs \in ScoreInputs
    /\ kScore = NoScore
    /\ kLast = [args |-> kArgs, score |-> NoScore]

ScoreIdle ==
    /\ kArgs = [subjectMatches |-> 0, totalSubjectKeywords |-> 0,
                bodyMatches |-> 0, totalBodyKeywords |-> 0]
    /\ kScore = NoScore
    /\ kLast = [args |-> kArgs, score |-> NoScore]

\* the call of Calculate in scoreKeywords
ScoreCalculate ==
    /\ kScore = NoScore
    /\ kScore' = Calculate(kArgs.subjectMatches, kArgs.totalSubjectKeywords,
                           kArgs.bodyMatches, kArgs.totalBodyKeywords)
    /\ UNCHANGED <<kArgs, kLast>>
    /\ UNCHANGED scoreOthers

\* the next email matches one more keyword of the subject list or of the
\* body list, the lists unchanged
ScoreMoreMatches ==
    /\ kScore # NoScore
    /\ \E a \in ScoreInputs :
          /\ a.totalSubjectKeywords = kArgs.totalSubjectKeywords
          /\ a.totalBodyKeywords = kArgs.totalBodyKeywords
          /\ \/ /\ a.subjectMatches = kArgs.subjectMatches + 1
                /\ a.bodyMatches = kArgs.bodyMatches
             \/ /\ a.subjectMatches = kArgs.subjectMatches
                /\ a.bodyMatches = kArgs.bodyMatches + 1
          /\ kArgs' = a
    /\ kLast' = [args |-> kArgs, score |-> kScore]
    /\ kScore' = NoScore
    /\ UNCHANGED scoreOthers

ScoreNext ==
    \/ ScoreCalculate
    \/ ScoreMoreMatches

\* ------------------------------------------------------------------------
\* containsWord as a function of the text and the keyword
\* ------------------------------------------------------------------------

MaxWordText == 5

\* the characters of the texts: two letters, a blank and a hyphen
WordAlphabet == {"a", "b", " ", "-"}

RECURSIVE TextsUpTo(_)
TextsUpTo(n) ==
    IF n = 0 THEN {<<>>}
    ELSE LET shorter == TextsUpTo(n - 1)
         IN shorter \cup {Append(t, c) : t \in {u \in shorter : Len(u) = n - 1},
                                           c \in WordAlphabet}

\* keywords: single words, a phrase with a blank, a word with a hyphen
WordInputs == {<<"a", "b">>, <<"a">>, <<"a", " ", "b">>, <<"-", "-">>}

WordInit ==
    /\ wText \in TextsUpTo(MaxWordText)
    /\ wWord \in WordInputs
    /\ wFound = "none"

WordIdle ==
    /\ wText = <<>>
    /\ wWord = <<>>
    /\ wFound = "none"

\* one containsWord(textLower, strings.ToLower(kw)) of the keyword loops
WordMatch ==
    /\ wFound = "none"
    /\ wFound' = IF containsWord(wText, wWord) THEN "match" ELSE "no match"
    /\ UNCHANGED <<wText, wWord>>
    /\ UNCHANGED wordOthers

WordNext == WordMatch

\* ------------------------------------------------------------------------
\* ClassifyWithFallback
\* ------------------------------------------------------------------------

\* the providers of the configuration: llm.primary, llm.fallback
Providers == {"ollama", "openai"}

\* the request of the call
FallbackRequest == [EmailSubject |-> <<"j">>, EmailFrom |-> <<"r", "@", "a">>]

\* the provider a request is sent with: Classify defaults to ollama
SentProvider(provider) == IF provider = "" THEN "ollama" ELSE provider

\* the responses a provider can give, and its error
AnswersOf(provider) ==
    IF provider = "ollama" THEN {"ollama: job", "ollama: not job"}
    ELSE {"openai: job", "openai: not job"}

ErrorOf(provider) == IF provider = "ollama" THEN "ollama failed" ELSE "openai failed"

NoCall == [Response |-> "none", Error |-> "none", Sent |-> "none"]

\* Client.Classify with req.Provider = provider: the response of the cache,
\* or the request sent upstream, its error returned or its response stored
\* and returned.  Sent is the provider asked, "" when none was.
classifyResults(enabled, c, provider) ==
    LET key == cacheKey(FallbackRequest)
        sent == SentProvider(provider)
    IN IF getCached(enabled, c, key, 0) # "miss"
       THEN {[Response |-> getCached(enabled, c, key, 0), Error |-> "nil", Sent |-> "",
              Cache |-> c]}
       ELSE {[Response |-> "nil", Error |-> ErrorOf(sent), Sent |-> sent, Cache |-> c]}
            \cup {[Response |-> a, Error |-> "nil", Sent |-> sent,
                    Cache |-> setCache(enabled, c, key, a, 0)] : a \in AnswersOf(sent)}

\* ClassifyWithFallback that tries the fallback whenever one is configured
afterPrimaryAlwaysFallback(err, fallback) ==
    IF fallback # "" THEN "fallback" ELSE IF err = "nil" THEN "result" ELSE "error"

\* ClassifyWithFallback after the first Classify: return its result, try the
\* fallback, or return its error
afterPrimary(err, fallback) ==
    IF err = "nil" THEN "result"
    ELSE IF fallback # "" THEN "fallback"
    ELSE "error"

FallbackInit ==
    /\ bEnabled \in BOOLEAN
    /\ bCache = <<>>
    /\ bPrimary \in Providers \cup {""}
    /\ bFallback \in Providers \cup {""}
    /\ bPc = "start"
    /\ bFirst = NoCall
    /\ bSecond = NoCall
    /\ bRet = [Response |-> "none", Error |-> "none"]

FallbackIdle ==
    /\ bEnabled = FALSE
    /\ bCache = <<>>
    /\ bPrimary = ""
    /\ bFallback = ""
    /\ bPc = "returned"
    /\ bFirst = NoCall
    /\ bSecond = NoCall
    /\ bRet = [Response |-> "none", Error |-> "none"]

\* ClassifyWithFallback up to the decision after Classify with the primary
FallbackPrimary ==
    /\ bPc = "start"
    /\ \E r \in classifyResults(bEnabled, bCache, bPrimary) :
          /\ bFirst' = [Response |-> r.Response, Error |-> r.Error, Sent |-> r.Sent]
          /\ bCache' = r.Cache
          /\ bPc' = IF afterPrimary(r.Error, bFallback) = "fallback" THEN "fallback"
                    ELSE "returned"
          /\ bRet' = IF afterPrimary(r.Error, bFallback) = "result"
                     THEN [Response |-> r.Response, Error |-> "nil"]
                     ELSE IF afterPrimary(r.Error, bFallback) = "error"
                     THEN [Response |-> "nil", Error |-> r.Error]
                     ELSE bRet
    /\ UNCHANGED <<bEnabled, bPrimary, bFallback, bSecond>>
    /\ UNCHANGED fallbackOthers

\* return c.Classify(ctx, req) with the fallback provider
FallbackSecond ==
    /\ bPc = "fallback"
    /\ \E r \in classifyResults(bEnabled, bCache, bFallback) :
          /\ bSecond' = [Response |-> r.Response, Error |-> r.Error, Sent |-> r.Sent]
          /\ bCache' = r.Cache
          /\ bRet' = [Response |-> r.Response, Error |-> r.Error]
    /\ bPc' = "returned"
    /\ UNCHANGED <<bEnabled, bPrimary, bFallback, bFirst>>
    /\ UNCHANGED fallbackOthers

\* another goroutine of the batch stores its response for a request with
\* the same subject and sender
FallbackOtherStores ==
    /\ bPc \in {"start", "fallback"}
    /\ bEnabled
    /\ cacheKey(FallbackRequest) \notin DOMAIN bCache
    /\ bCache' = setCache(bEnabled, bCache, cacheKey(FallbackRequest), "other: job", 0)
    /\ UNCHANGED <<bEnabled, bPrimary, bFallback, bPc, bFirst, bSecond, bRet>>
    /\ UNCHANGED fallbackOthers

FallbackNext ==
    \/ FallbackPrimary
    \/ FallbackSecond
    \/ FallbackOtherStores

\* ------------------------------------------------------------------------
\* The sync cursor across runs with failing fetches
\* ------------------------------------------------------------------------

MaxCursorTime == 4
MaxCursorRuns == 2

\* the provider's mailbox
CursorMailbox == {"m1", "m2", "m3", "m4"}

NoRun == [listed |-> {}, fetched |-> {}, cancelled |-> FALSE]

\* the ids buildQuery's "after:" date lets the list phase return: with a
\* cursor, the messages not older than the day of the cursor
ListedBy(after) ==
    {id \in CursorMailbox :
        after.Valid => Mail[id].Date \div TicksPerDay >= after.Time \div TicksPerDay}

\* a run that leaves the cursor alone when a listed message was not got
cursorAfterRunKept(lastSync, listed, got, cancelled, t) ==
    IF cancelled \/ got # listed THEN lastSync ELSE TimeOf(t)

\* last_sync_at after a run: stamped with time.Now() in the empty branch and
\* after the processing loop; the statement fails on a cancelled context
cursorAfterRun(lastSync, listed, got, cancelled, t) ==
    IF cancelled THEN lastSync ELSE TimeOf(t)

CursorInit ==
    /\ uNow = LatestDate
    /\ uLastSync = NullTime
    /\ uRuns = 0
    /\ uLast = NoRun

CursorIdle ==
    /\ uNow = 0
    /\ uLastSync = NullTime
    /\ uRuns = 0
    /\ uLast = NoRun

\* time passes between runs
CursorTick ==
    /\ uNow < MaxCursorTime
    /\ uNow' = uNow + 1
    /\ UNCHANGED <<uLastSync, uRuns, uLast>>
    /\ UNCHANGED cursorOthers

\* SyncWithOptions as far as the cursor goes: the list phase returns every
\* message of the date range, each fetch succeeds, fails, or ends on the
\* cancelled context; fetchMessagesParallel returns the got ones and no
\* error, and the run stamps the cursor
CursorSync ==
    /\ uRuns < MaxCursorRuns
    /\ \E incremental \in BOOLEAN, cancelled \in BOOLEAN :
       \E listed \in {ListedBy(IF incremental THEN uLastSync ELSE NullTime)} :
       \E got \in SUBSET listed :
          /\ cancelled => got # listed
          /\ uLast' = [listed |-> listed, fetched |-> got, cancelled |-> cancelled]
          /\ uLastSync' = cursorAfterRun(uLastSync, listed, got, cancelled, uNow)
    /\ uRuns' = uRuns + 1
    /\ UNCHANGED uNow
    /\ UNCHANGED cursorOthers

CursorNext ==
    \/ CursorTick
    \/ CursorSync

\* ------------------------------------------------------------------------
\* The classification loop over batches of uncertain messages
\* ------------------------------------------------------------------------

MaxUncertain == 6

batchSize == 5

UncertainIds == <<"u1", "u2", "u3", "u4", "u5", "u6", "u7", "u8">>

\* the messages whose verdict, when job-related, has a confidence of the
\* medium band
MediumIds == {"u2", "u6"}

\* the response computed from the subject, body and sender of message id: For
\* stands for the company and position read from that message
VerdictFor(id, job) ==
    [For |-> id, IsJobRelated |-> job, Medium |-> job /\ id \in MediumIds]

NoResponse == [For |-> "", IsJobRelated |-> FALSE, Medium |-> FALSE]

\* batchEnd of the batch that starts at start (0-based), n uncertain messages
batchEnd(start, n) == IF start + batchSize > n THEN n ELSE start + batchSize

\* the entries appended for a batch the batch endpoint answered with r
\* results: result i is the verdict of item i of the batch (a result beyond
\* the items repeats the last one), Index batchStart + i
apiBatchResults(uncertain, verdicts, start, r) ==
    LET k == batchEnd(start, Len(uncertain)) - start
    IN [i \in 1..r |->
           [Index |-> start + i - 1,
            Response |-> verdicts[uncertain[start + (IF i > k THEN k ELSE i)]],
            Error |-> FALSE]]

\* the entries appended for a batch classified one message at a time, the
\* calls of the items in failed returning an error
fallbackBatchResults(uncertain, verdicts, start, failed) ==
    LET k == batchEnd(start, Len(uncertain)) - start
    IN [i \in 1..k |->
           IF (start + i) \in failed
           THEN [Index |-> start + i - 1, Response |-> NoResponse, Error |-> TRUE]
           ELSE [Index |-> start + i - 1,
                 Response |-> verdicts[uncertain[start + i]], Error |-> FALSE]]

\* the positions of batchResults the processing loop acts on: no error and a
\* job-related response
ActsOn(results, i) == ~results[i].Error /\ results[i].Response.IsJobRelated

\* the processing loop indexes uncertain with the position of the result in
\* batchResults (e := &uncertain[i]); a position beyond the list panics
ProcessPanics(uncertain, results) ==
    \E i \in 1..Len(results) : ActsOn(results, i) /\ i > Len(uncertain)

\* the entry that pairs the message at position i with the response at
\* position i
PairAt(uncertain, results, i) ==
    [ID |-> uncertain[i], Classification |-> results[i].Response]

\* the positions of a sequence, in order, that satisfy Test
PositionsOf(n, Test(_)) ==
    SelectSeq([i \in 1..n |-> i], Test)

\* the high-confidence entries appended to toProcess
processHigh(uncertain, results) ==
    LET idx == PositionsOf(Len(results),
                   LAMBDA i : ActsOn(results, i) /\ ~results[i].Response.Medium)
    IN [j \in 1..Len(idx) |-> PairAt(uncertain, results, idx[j])]

\* the medium-confidence entries appended to needsValidation
processNeeds(uncertain, results) ==
    LET idx == PositionsOf(Len(results),
                   LAMBDA i : ActsOn(results, i) /\ results[i].Response.Medium)
    IN [j \in 1..Len(idx) |-> PairAt(uncertain, results, idx[j])]

BatchInit ==
    /\ \E n \in 1..MaxUncertain : kUncertain = SubSeq(UncertainIds, 1, n)
    /\ \E jobs \in SUBSET Range(kUncertain) :
          kVerdicts = [id \in Range(kUncertain) |-> VerdictFor(id, id \in jobs)]
    /\ kStart = 0
    /\ kBatchResults = <<>>
    /\ kNeeds = <<>>
    /\ kToProcess = <<>>
    /\ kPc = "batches"

BatchIdle ==
    /\ kUncertain = <<>>
    /\ kVerdicts = <<>>
    /\ kStart = 0
    /\ kBatchResults = <<>>
    /\ kNeeds = <<>>
    /\ kToProcess = <<>>
    /\ kPc = "done"

\* one turn of the batch loop, ClassifyBatchAPI answering with r results
BatchAPI ==
    /\ kPc = "batches"
    /\ kStart < Len(kUncertain)
    /\ \E r \in 0..(batchEnd(kStart, Len(kUncertain)) - kStart + 1) :
          kBatchResults' =
              kBatchResults \o apiBatchResults(kUncertain, kVerdicts, kStart, r)
    /\ kStart' = kStart + batchSize
    /\ UNCHANGED <<kUncertain, kVerdicts, kNeeds, kToProcess, kPc>>
    /\ UNCHANGED batchOthers

\* one turn of the batch loop, ClassifyBatchAPI returning an error and the
\* batch classified with ClassifyWithFallback one message at a time
BatchFallback ==
    /\ kPc = "batches"
    /\ kStart < Len(kUncertain)
    /\ \E failed \in SUBSET ((kStart + 1)..batchEnd(kStart, Len(kUncertain))) :
          kBatchResults' =
              kBatchResults \o fallbackBatchResults(kUncertain, kVerdicts, kStart, failed)
    /\ kStart' = kStart + batchSize
    /\ UNCHANGED <<kUncertain, kVerdicts, kNeeds, kToProcess, kPc>>
    /\ UNCHANGED batchOthers

\* the loop over batchResults
BatchProcess ==
    /\ kPc = "batches"
    /\ kStart >= Len(kUncertain)
    /\ IF ProcessPanics(kUncertain, kBatchResults)
       THEN /\ kPc' = "panic"
            /\ UNCHANGED <<kNeeds, kToProcess>>
       ELSE /\ kToProcess' = processHigh(kUncertain, kBatchResults)
            /\ kNeeds' = processNeeds(kUncertain, kBatchResults)
            /\ kPc' = "validate"
    /\ UNCHANGED <<kUncertain, kVerdicts, kStart, kBatchResults>>
    /\ UNCHANGED batchOthers

\* the validation loop: the entries of needsValidation the validator
\* confirms, or fails on, are appended to toProcess, the rejected ones are not
BatchValidate ==
    /\ kPc = "validate"
    /\ \E rejected \in SUBSET (1..Len(kNeeds)) :
          kToProcess' = kToProcess \o
              [j \in 1..Len(PositionsOf(Len(kNeeds), LAMBDA i : i \notin rejected)) |->
                  kNeeds[PositionsOf(Len(kNeeds), LAMBDA i : i \notin rejected)[j]]]
    /\ kPc' = "done"
    /\ UNCHANGED <<kUncertain, kVerdicts, kStart, kBatchResults, kNeeds>>
    /\ UNCHANGED batchOthers

BatchNext ==
    \/ BatchAPI
    \/ BatchFallback
    \/ BatchProcess
    \/ BatchValidate

\* the variables of the specifications that stand on their own, at rest
AuxIdle == PatternIdle /\ ScoreIdle /\ LearnIdle /\ PoolIdle /\ MergeIdle /\ WordIdle /\ FallbackIdle /\ CursorIdle /\ BatchIdle

\* ------------------------------------------------------------------------
\* Specifications
\* ------------------------------------------------------------------------

\* the tracker and its store, every store statement succeeding
Init ==
    StoreInit(0, Mailboxes) /\ FilterIdle /\ StatusIdle /\ CacheIdle /\ WorkerIdle /\ AuxIdle

Spec == Init /\ [][Next]_vars

\* the tracker and its store, store statements failing
\* the mailboxes store failures are explored with
FaultMailboxes == {box \in Mailboxes : Cardinality(box) <= MaxBatch}

InitFault ==
    StoreInit(MaxFaults, FaultMailboxes) /\ FilterIdle /\ StatusIdle /\ CacheIdle /\ WorkerIdle
    /\ AuxIdle

SpecFault == InitFault /\ [][Next]_vars

\* the store of a program that runs no sync
StoreIdle == StoreInit(0, {{}})

InitFilter ==
    StoreIdle /\ FilterInit /\ StatusIdle /\ CacheIdle /\ WorkerIdle /\ AuxIdle

SpecFilter == InitFilter /\ [][FilterNext]_vars

InitStatus ==
    StoreIdle /\ FilterIdle /\ StatusInit /\ CacheIdle /\ WorkerIdle /\ AuxIdle

SpecStatus == InitStatus /\ [][StatusNext]_vars

InitCache ==
    StoreIdle /\ FilterIdle /\ StatusIdle /\ CacheInit /\ WorkerIdle /\ AuxIdle

SpecCache == InitCache /\ [][CacheNext]_vars

InitWorkers ==
    StoreIdle /\ FilterIdle /\ StatusIdle /\ CacheIdle /\ WorkerInit /\ AuxIdle

SpecWorkers == InitWorkers /\ [][WorkerNext]_vars

\* the worker pools under a fair scheduler: a goroutine that can take a step
\* takes it, a started call returns (the HTTP clients carry the context and
\* a timeout), and the caller's loop over the channel goes on; nothing
\* obliges the caller to cancel the context
SpecWorkersFair ==
    /\ SpecWorkers
    /\ WF_vars(WorkerAcquire)
    /\ WF_vars(WorkerCancelled)
    /\ WF_vars(WorkerCallReturns)
    /\ WF_vars(WorkerRelease)
    /\ WF_vars(PoolFinish)

\* the variables of the tracker, the filter, the status engine, the cache and
\* the worker pool, at rest
CoreIdle == StoreIdle /\ FilterIdle /\ StatusIdle /\ CacheIdle /\ WorkerIdle

InitPattern == CoreIdle /\ PatternInit /\ ScoreIdle /\ LearnIdle /\ PoolIdle /\ MergeIdle /\ WordIdle /\ FallbackIdle /\ CursorIdle /\ BatchIdle

SpecPattern == InitPattern /\ [][PatternNext]_vars

InitScore == CoreIdle /\ PatternIdle /\ ScoreInit /\ LearnIdle /\ PoolIdle /\ MergeIdle /\ WordIdle /\ FallbackIdle /\ CursorIdle /\ BatchIdle

SpecScore == InitScore /\ [][ScoreNext]_vars

InitLearn == CoreIdle /\ PatternIdle /\ ScoreIdle /\ LearnInit /\ PoolIdle /\ MergeIdle /\ WordIdle /\ FallbackIdle /\ CursorIdle /\ BatchIdle

\* the learner with the sync command, a new Tracker for every sync
SpecLearn == InitLearn /\ [][LearnNext]_vars

\* the learner with a Tracker that is kept for several syncs
SpecTracker == InitLearn /\ [][TrackerNext]_vars

InitPool == CoreIdle /\ PatternIdle /\ ScoreIdle /\ LearnIdle /\ PoolInit /\ MergeIdle /\ WordIdle /\ FallbackIdle /\ CursorIdle /\ BatchIdle

SpecPool == InitPool /\ [][PoolNext]_vars

\* one batch, goroutine by goroutine, under a fair scheduler
SpecPoolFair ==
    /\ SpecPool
    /\ WF_vars(FetchList)
    /\ WF_vars(ClassifyStart)
    /\ \A i \in Indices(MaxPool) :
          /\ WF_vars(i \in Indices(gN) /\ GoSelect(i))
          /\ WF_vars(i \in Indices(gN) /\ GoCall(i))
          /\ WF_vars(i \in Indices(gN) /\ GoReport(i))
    /\ WF_vars(PoolCollect)
    /\ WF_vars(PoolReturn)

InitWord == CoreIdle /\ PatternIdle /\ ScoreIdle /\ LearnIdle /\ PoolIdle /\ MergeIdle /\ WordInit /\ FallbackIdle /\ CursorIdle /\ BatchIdle

SpecWord == InitWord /\ [][WordNext]_vars

InitFallback == CoreIdle /\ PatternIdle /\ ScoreIdle /\ LearnIdle /\ PoolIdle /\ MergeIdle /\ WordIdle /\ FallbackInit /\ CursorIdle /\ BatchIdle

SpecFallback == InitFallback /\ [][FallbackNext]_vars

InitCursor == CoreIdle /\ PatternIdle /\ ScoreIdle /\ LearnIdle /\ PoolIdle /\ MergeIdle /\ WordIdle /\ FallbackIdle /\ CursorInit /\ BatchIdle

SpecCursor == InitCursor /\ [][CursorNext]_vars

InitBatch == CoreIdle /\ PatternIdle /\ ScoreIdle /\ LearnIdle /\ PoolIdle /\ MergeIdle /\ WordIdle /\ FallbackIdle /\ CursorIdle /\ BatchInit

SpecBatch == InitBatch /\ [][BatchNext]_vars

InitMerge == CoreIdle /\ PatternIdle /\ ScoreIdle /\ LearnIdle /\ PoolIdle /\ MergeInit /\ WordIdle /\ FallbackIdle /\ CursorIdle /\ BatchIdle

SpecMerge == InitMerge /\ [][MergeNext]_vars

\* ------------------------------------------------------------------------
\* Properties of the tracker and its store
\* ------------------------------------------------------------------------

\* the stored emails of a conversation
JoinedRows(c) == {r \in emails : r.ConversationID = c.ID}

\* C1: ingest is idempotent.  There is one stored row per gmail_id, and a run
\* whose toProcess entries are all stored already issues no write statement
\* from processEmail and leaves the emails table, and with it every
\* conversation's set of emails, and the set of conversations as they were.
C1_IdempotentIngest ==
    /\ \A r1, r2 \in emails : r1.GmailID = r2.GmailID => r1 = r2
    /\ (repeatRun /\ pc \in {"processing", "done"}) =>
          /\ peWrites = 0
          /\ emails = emailsAtStart
          /\ {c.ID : c \in conversations} = convIDsAtStart

C1_Witness ==
    /\ pc = "done"
    /\ repeatRun
    /\ result.EmailsFetched = MaxBatch
    /\ emails = emailsAtStart
    /\ Cardinality(emails) >= MaxBatch

\* C2: whenever no sync run is in the middle of its processing loop, every
\* conversation's email_count is the number of email rows joined to it.
C2_EmailCountMatchesRows ==
    pc \in {"idle", "done"} =>
        \A c \in conversations : c.EmailCount = Cardinality(JoinedRows(c))

\* C3: two stored emails with the same non-empty thread_id have the same
\* conversation_id.
C3_ThreadSameConversation ==
    \A r1, r2 \in emails :
        (r1.ThreadID = r2.ThreadID /\ r1.ThreadID # "") => r1.ConversationID = r2.ConversationID

C3_Witness ==
    \E r1, r2 \in emails :
        /\ r1.ThreadID = r2.ThreadID
        /\ r1.GmailID # r2.GmailID
        /\ ~EqualFold(r1.FromAddress, r2.FromAddress)
        /\ ~EqualFold(r1.FromAddress, UserEmail)
        /\ ~EqualFold(r2.FromAddress, UserEmail)
        /\ r1.ConversationID = r2.ConversationID

\* C6: closed is terminal for the engine.  No step of a sync run, neither
\* attaching an email in processEmail nor the status pass, changes the status
\* of a conversation that is stored as closed.
C6_ClosedIsTerminal ==
    [][\A c \in conversations :
          c.Status = StatusClosed =>
              \E d \in conversations' : d.ID = c.ID /\ d.Status = StatusClosed]_vars

C6_Witness ==
    /\ pc = "done"
    /\ closedAttach
    /\ \E c \in conversations :
          /\ c.Status = StatusClosed
          /\ Cardinality(JoinedRows(c)) >= 2
          /\ \E r \in JoinedRows(c) : r.Date = c.LastActivityAt

\* the entries of the running sync's filter output that are inbound messages
\* from the domain
InboundFrom(domain) ==
    {i \in 1..Len(filtered) :
        /\ ~IsFromMe(Mail[filtered[i].ID], UserEmail)
        /\ EmailDomain(Mail[filtered[i].ID]) = domain}

\* the entry was excluded at the domain-blacklist layer
ExcludedAtBlacklist(i) ==
    ~filtered[i].Result.Include /\ filtered[i].Result.Layer = LayerBlacklist

\* the message's relevant address matches a whitelist pattern of the filter
\* the sync runs with
Whitelisted(id) ==
    MatchesAnyDomainPattern(SyncFilter(learnedFilters), Mail[id],
                            GetAllDomainWhitelist(SyncFilter(learnedFilters)))

\* C7 as stated: after three mark-spam calls for a domain, the domain is in
\* the learned blacklist and every inbound message from it in a later sync is
\* excluded at the domain-blacklist layer.
C7_BlacklistedAfterThreeMarks ==
    \A domain \in DOMAIN spamCalls :
        spamCalls[domain] >= autoBlacklistThreshold =>
            /\ domain \in GetLearnedBlacklist(learnedFilters)
            /\ \A i \in InboundFrom(domain) : ExcludedAtBlacklist(i)

\* C7, amended: after three mark-spam calls for a domain, the domain is in
\* the learned blacklist and every inbound message from it in a later sync
\* whose address matches no whitelist pattern is excluded at the
\* domain-blacklist layer.
C7_BlacklistedUnlessWhitelisted ==
    \A domain \in DOMAIN spamCalls :
        spamCalls[domain] >= autoBlacklistThreshold =>
            /\ domain \in GetLearnedBlacklist(learnedFilters)
            /\ \A i \in InboundFrom(domain) :
                  ~Whitelisted(filtered[i].ID) => ExcludedAtBlacklist(i)

C7_Witness ==
    \E domain \in DOMAIN spamCalls :
        /\ spamCalls[domain] >= autoBlacklistThreshold
        /\ domain \in GetLearnedBlacklist(learnedFilters)
        /\ \E i \in InboundFrom(domain) :
              ~Whitelisted(filtered[i].ID) /\ ExcludedAtBlacklist(i)

\* C10: a run in which a processEmail store write failed leaves the sync
\* state with the values it had when the run began.
C10_CursorKeptOnFailedWrite ==
    (pc = "done" /\ runWriteFailed) => syncState = syncStateAtStart

\* ------------------------------------------------------------------------
\* Properties of Filter.Apply
\* ------------------------------------------------------------------------

\* the relevant address of the email matches a pattern of the whitelist
MatchesWhitelist == MatchesAnyDomainPattern(fFilter, fEmail, GetAllDomainWhitelist(fFilter))

\* the relevant address matches a pattern of the domain blacklist, or the
\* subject contains a pattern of the subject blacklist
MatchesBlacklist ==
    \/ MatchesAnyDomainPattern(fFilter, fEmail, GetAllDomainBlacklist(fFilter))
    \/ MatchesSubjectBlacklist(fFilter, fEmail)

\* C4: layer priority of Filter.Apply.  A whitelist match gives include at
\* the whitelist layer whatever the blacklists say; a blacklist match without
\* a whitelist match gives exclude at the blacklist layer; a result of the
\* keyword layers (keyword, uncertain, rejected) comes only when neither list
\* matches.
C4_LayerPriority ==
    fResult # NoResult =>
        /\ MatchesWhitelist => (fResult.Include /\ fResult.Layer = LayerWhitelist)
        /\ (MatchesBlacklist /\ ~MatchesWhitelist) =>
               (~fResult.Include /\ fResult.Layer = LayerBlacklist)
        /\ fResult.Layer \in {LayerKeyword, LayerUncertain, LayerRejected} =>
               (~MatchesWhitelist /\ ~MatchesBlacklist)

C4_Witness ==
    /\ fResult # NoResult
    /\ MatchesWhitelist
    /\ MatchesAnyDomainPattern(fFilter, fEmail, GetAllDomainBlacklist(fFilter))
    /\ MatchesSubjectBlacklist(fFilter, fEmail)
    /\ fResult.Include
    /\ fResult.Layer = LayerWhitelist

\* ------------------------------------------------------------------------
\* Properties of ComputeStatus
\* ------------------------------------------------------------------------

\* the emails of the list with the greatest date
Latest == {i \in 1..Len(sList) : \A j \in 1..Len(sList) : sList[j].Date <= sList[i].Date}

\* the status the claim describes, for the last email and a staleness verdict
StatusBy(last, stale) ==
    IF stale THEN StatusStale
    ELSE IF EqualFold(last.FromAddress, UserEmail) THEN StatusWaitingOnThem
    ELSE StatusWaitingOnMe

\* C5 as stated: d is the number of whole days since the last email.
C5_StatusByWholeDays ==
    sResult # "none" =>
        IF Len(sList) = 0 THEN sResult = StatusActive
        ELSE \E i \in Latest :
                sResult = StatusBy(sList[i],
                                   (sNow - sList[i].Date) \div TicksPerDay > StaleAfterDays)

\* C5, amended: active for an empty list; otherwise, with last an email of
\* the greatest date and d the time since last.date in days, fractions
\* included: stale if d > staleAfterDays whoever sent last, else
\* waiting_on_them if last was sent by me, else waiting_on_me; never closed,
\* and never active for a non-empty list.
C5_StatusByElapsedTime ==
    sResult # "none" =>
        /\ IF Len(sList) = 0 THEN sResult = StatusActive
           ELSE \E i \in Latest :
                   sResult = StatusBy(sList[i],
                                      sNow - sList[i].Date > StaleAfterDays * TicksPerDay)
        /\ sResult # StatusClosed
        /\ Len(sList) > 0 => sResult # StatusActive

C5_Witness ==
    /\ sResult = StatusStale
    /\ \E i \in Latest :
          /\ sNow - sList[i].Date > StaleAfterDays * TicksPerDay
          /\ (sNow - sList[i].Date) \div TicksPerDay = StaleAfterDays
          /\ EqualFold(sList[i].FromAddress, UserEmail)

\* ------------------------------------------------------------------------
\* Properties of the classifier client
\* ------------------------------------------------------------------------

\* C8: with caching enabled, two Classify calls with the same subject and
\* from address, issued within 24 hours of each other and both answered, have
\* caused exactly one upstream request.
C8_OneUpstreamCall ==
    (/\ cacheEnabled
     /\ \A c \in Callers : cPc[c] = "done" /\ cResp[c] \in {"job", "not job"}
     /\ \A c, d \in Callers :
           /\ cReq[c].EmailSubject = cReq[d].EmailSubject
           /\ cReq[c].EmailFrom = cReq[d].EmailFrom
           /\ cStart[c] - cStart[d] <= cacheExpiry)
    => httpCalls = 1

\* C9: never more fetches in flight than concurrentFetches (10), never more
\* classify calls in flight than concurrentClassifications (5).
C9_BoundedInFlight ==
    /\ wPhase = "fetch" => wActive <= concurrentFetches
    /\ wPhase = "classify" => wActive <= concurrentClassifications

C9_Witness ==
    /\ wPhase = "classify"
    /\ wPeak = concurrentFetches
    /\ wActive = concurrentClassifications
    /\ wWaiting > 0

\* ------------------------------------------------------------------------
\* Classification and validation during a sync
\* ------------------------------------------------------------------------

\* the toProcess entries the run built for message id
PlannedFor(id) == {k \in 1..Len(llm.planned) : llm.planned[k].ID = id}

\* the validator was called for message id in the run
ValidatorCalled(id) == \E k \in 1..Len(llm.validate) : llm.validate[k] = id

\* the classifier answered for the i-th classified message of the run
Answered(i) == ~llm.cl[i].Error

C12_LowConfidenceNotProcessed ==
    \A i \in 1..Len(llm.classify) :
        (Answered(i) /\ ~RatGeq(llm.cl[i].Confidence, 5, 10))
            => PlannedFor(llm.classify[i]) = {}

\* the validator's answer for the i-th classified message
Verdict(i) == llm.vl[i]

\* what C13 says of the toProcess list the run built
C13_Planned ==
    \A i \in 1..Len(llm.classify) :
        ValidatorCalled(llm.classify[i]) =>
           LET id == llm.classify[i]
               v == Verdict(i)
           IN /\ (~v.Error /\ v.FinalVerdict)
                    => \E k \in PlannedFor(id) :
                          /\ llm.planned[k].Result.Include
                          /\ llm.planned[k].Result.Layer = LayerLLM
                          /\ llm.planned[k].Result.Confidence = v.Confidence
              /\ (~v.Error /\ ~v.FinalVerdict) => PlannedFor(id) = {}
              /\ v.Error
                    => \E k \in PlannedFor(id) :
                          /\ llm.planned[k].Result.Include
                          /\ llm.planned[k].Result.Layer = LayerLLM
                          /\ llm.planned[k].Result.Confidence = llm.cl[i].Confidence
                          /\ ~llm.planned[k].Validated

\* the messages the validator rejected in the run
Rejected ==
    {llm.classify[i] : i \in {j \in 1..Len(llm.classify) :
        ValidatorCalled(llm.classify[j]) /\ ~Verdict(j).Error /\ ~Verdict(j).FinalVerdict}}

\* what C13 says of the store: no step of the run stores an email row for a
\* rejected message or creates a conversation while handling one
C13_NoRowForRejected ==
    /\ \A r \in emails' \ emails : r.GmailID \notin Rejected
    /\ (\E c \in conversations' : \A x \in conversations : x.ID # c.ID)
          => Head(toProcess).ID \notin Rejected

\* C13: for each medium-tier message, a validator answer final_verdict = true
\* includes it at the llm layer with the validator's confidence; final_verdict
\* = false leaves it unprocessed, with no email or conversation row created
\* for it; a failed validator call includes it with the classifier's
\* confidence and Validated = false.
C13_ValidatorOutcomes == [] C13_Planned /\ [][C13_NoRowForRejected]_vars

\* a run whose validator call failed stored the message at the llm layer
C13_Witness ==
    /\ pc = "done"
    /\ \E i \in 1..Len(llm.classify) :
          /\ ValidatorCalled(llm.classify[i])
          /\ Verdict(i).Error
          /\ \E r \in emails : r.GmailID = llm.classify[i] /\ r.Classification = LayerLLM

\* C14: every validator rejection (final_verdict = false) adds exactly one
\* validation-rejected entry to the error list of the sync result.
C14_RejectionRecorded == llm.rejections = Cardinality(Rejected)

\* C15: with the classifier absent or unhealthy at sync start and n > 0
\* uncertain messages, no classify or validate call is made and the result
\* reports classification as skipped with n pending messages.
C15_SkippedWhenUnavailable ==
    (llm.uncertain > 0 /\ ~llm.running)
        => /\ llm.classify = <<>>
           /\ llm.validate = <<>>
           /\ pc = "done" => /\ result.ClassificationSkipped
                             /\ result.EmailsPendingClassify = llm.uncertain

\* C16: classify and validate calls are issued only for messages whose
\* filter result has layer uncertain.
C16_CallsOnlyForUncertain ==
    \A id \in {llm.classify[i] : i \in 1..Len(llm.classify)}
              \cup {llm.validate[i] : i \in 1..Len(llm.validate)} :
        \E k \in 1..Len(filtered) :
            filtered[k].ID = id /\ filtered[k].Result.Layer = LayerUncertain

\* a run fetched a message the keyword layer included and an uncertain one,
\* and called the classifier
C16_Witness ==
    /\ llm.classify # <<>>
    /\ \E k \in 1..Len(filtered) :
          filtered[k].Result.Layer = LayerKeyword /\ filtered[k].Result.Include

\* ------------------------------------------------------------------------
\* Conversations and the grouper
\* ------------------------------------------------------------------------

\* the greatest date among the emails joined to conversation c
MaxJoinedDate(c) ==
    CHOOSE d \in {r.Date : r \in JoinedRows(c)} : \A r \in JoinedRows(c) : r.Date <= d

\* C17: in every store state reached by sync runs, each conversation's
\* last_activity_at equals the maximum date over the emails joined to it.
C17_LastActivityIsMaxDate ==
    \A c \in conversations :
        JoinedRows(c) # {} => c.LastActivityAt = MaxJoinedDate(c)

\* C18: every persisted conversation has at least one joined email in every
\* store state a sync run leaves behind, also when the email insert fails
\* after the conversation row was created.
C18_ConversationHasEmail ==
    pc \in {"idle", "done"} => \A c \in conversations : JoinedRows(c) # {}

\* the conversations holding an email of thread t
ThreadMatches(t) ==
    {c \in conversations : \E r \in emails : r.ConversationID = c.ID /\ r.ThreadID = t}

\* the message has a recruiter email: it is inbound, or outbound with a
\* recipient
HasRecruiter(e) == ~IsFromMe(e, UserEmail) \/ Len(e.To) > 0

\* sender for inbound, first recipient for outbound
RecruiterOf(e) == IF IsFromMe(e, UserEmail) THEN e.To[1].Email ELSE e.From.Email

\* the conversations whose recruiter_email is the recruiter email of e
RecruiterMatches(e) ==
    {c \in conversations : EqualFold(c.RecruiterEmail, RecruiterOf(e))}

\* a step that stores the row of a message attaches it by the rules in order
C19_Step ==
    \A r \in emails' \ emails :
        LET e == Mail[r.GmailID]
            byThread == ThreadMatches(e.ThreadID)
        IN IF byThread # {}
           THEN \E c \in byThread : r.ConversationID = c.ID
           ELSE HasRecruiter(e) =>
                   IF RecruiterMatches(e) # {}
                   THEN \E c \in RecruiterMatches(e) : r.ConversationID = c.ID
                   ELSE /\ \A c \in conversations : c.ID # r.ConversationID
                        /\ \E c \in conversations' :
                              c.ID = r.ConversationID /\ c.Status = StatusActive

\* C19: the grouper applies its rules in order.  A message is attached to the
\* conversation found by thread match when one exists, even if another
\* conversation matches its recruiter email; without a thread match it is
\* attached to the conversation whose recruiter_email equals its recruiter
\* email; with neither, a new conversation is created with status active.
C19_GrouperRulesInOrder == [][C19_Step]_vars

\* a run that fetched one new inbound message stored it in the conversation
\* of its thread while another conversation has its sender as recruiter
C19_Witness ==
    /\ pc = "done"
    /\ Len(fetched) = 1
    /\ ~repeatRun
    /\ \E r \in emails :
          /\ r.GmailID = fetched[1]
          /\ r.Direction = DirectionInbound
          /\ \E r2 \in emails : /\ r2.GmailID # r.GmailID
                                /\ r2.ThreadID = r.ThreadID
                                /\ r2.ConversationID = r.ConversationID
          /\ \E c \in conversations : /\ c.ID # r.ConversationID
                                      /\ EqualFold(c.RecruiterEmail, r.FromAddress)

\* C20: an outbound message with an empty recipient list is dropped by the
\* grouper: no email row is stored for it and no conversation is created or
\* matched using the user's own address.
C20_OutboundWithoutRecipientDropped ==
    /\ \A r \in emails :
          ~(IsFromMe(Mail[r.GmailID], UserEmail) /\ Len(Mail[r.GmailID].To) = 0)
    /\ \A c \in conversations : ~EqualFold(c.RecruiterEmail, UserEmail)


\* ------------------------------------------------------------------------
\* Statuses after a sync run
\* ------------------------------------------------------------------------

\* the statuses ComputeStatus can give conversation c from the stored rows
\* at time t
CurrentStatuses(c, rows, t) ==
    {ComputeStatus(s, UserEmail, StaleAfterDays, t) :
        s \in DateAscOrders(ListEmailsForConversation(rows, c.ID))}

C21_Step ==
    (pc # "done" /\ pc' = "done" /\ result'.Errors = 0)
        => \A c \in conversations' :
               c.Status # StatusClosed => c.Status \in CurrentStatuses(c, emails', now')

\* C21: when a sync run returns without error, also one that fetched no new
\* messages, every non-closed conversation's stored status equals
\* ComputeStatus over its stored emails at that time.
C21_StatusCurrentAfterSync == [][C21_Step]_vars

\* ------------------------------------------------------------------------
\* Domain patterns
\* ------------------------------------------------------------------------

\* C29: a pattern with a dot and no '@' matches an address only if the
\* address's domain equals the pattern or ends with '.' followed by the
\* pattern.
C29_DottedPatternNoSubstring ==
    (dMatch = "match" /\ Contains(dPattern, <<".">>) /\ ~Contains(dPattern, <<"@">>))
        => \/ AddressDomain(Addr(dEmail)) = ToLower(dPattern)
           \/ HasSuffix(AddressDomain(Addr(dEmail)), <<".">> \o ToLower(dPattern))

\* ------------------------------------------------------------------------
\* Keyword score
\* ------------------------------------------------------------------------

\* score a is at least score b
ScoreGeq(a, b) == a.num * b.den >= b.num * a.den

\* C30: for match counts within the list lengths the keyword score lies in
\* [0, 1], and one more subject or body match, the lists unchanged, never
\* lowers the score.
C30_ScoreBoundedMonotone ==
    kScore # NoScore
        => /\ kScore.den > 0
           /\ kScore.num >= 0
           /\ kScore.num <= kScore.den
           /\ kLast.score # NoScore => ScoreGeq(kScore, kLast.score)

\* a score with the both-matched bonus was computed after a lower one
C30_Witness ==
    /\ kScore # NoScore
    /\ kLast.score # NoScore
    /\ kLast.args.bodyMatches = 0
    /\ kArgs.subjectMatches > 0
    /\ kArgs.bodyMatches > 0
    /\ ~ScoreGeq(kLast.score, kScore)

\* ------------------------------------------------------------------------
\* Learned filters
\* ------------------------------------------------------------------------

\* the learned list of filter f that rules of type filterType go to
LearnedList(f, filterType) ==
    CASE filterType = FilterTypeDomainWhitelist -> f.learnedDomainWhitelist
      [] filterType = FilterTypeDomainBlacklist -> f.learnedDomainBlacklist
      [] filterType = FilterTypeSubjectBlacklist -> f.learnedSubjectBlacklist
      [] filterType = FilterTypeSubjectKeyword -> f.learnedSubjectKeywords
      [] filterType = FilterTypeBodyKeyword -> f.learnedBodyKeywords

\* the filter of the latest sync holds no rule that was a suggestion when
\* the sync began
C22_SuggestionsNotLoaded ==
    lSyncs > 0 =>
        \A r \in lAtStart :
            r.Source = FilterSourceAISuggested
                => r.Value \notin Range(LearnedList(lFilter, r.FilterType))

\* a step that turns a suggestion into a confirmed rule is an approval
C22_OnlyApprovalConfirms ==
    (\E r \in lRows, r2 \in lRows' :
        /\ r.FilterType = r2.FilterType
        /\ r.Value = r2.Value
        /\ r.Source = FilterSourceAISuggested
        /\ r2.Source = FilterSourceAIConfirmed)
        => lOp' = "approve"

\* C22: a learned filter with source ai_suggested is not applied by the
\* filter of any sync until it is approved, and only approval changes a
\* row's source from ai_suggested to ai_confirmed.
C22_SuggestionsInertUntilApproved ==
    [] C22_SuggestionsNotLoaded /\ [][C22_OnlyApprovalConfirms]_vars

\* a sync began with one rule still a suggestion and left out, and another
\* approved and loaded
C22_Witness ==
    /\ lSyncs > 0
    /\ \E r \in lAtStart :
           /\ r.Source = FilterSourceAISuggested
           /\ r.Value \notin Range(LearnedList(lFilter, r.FilterType))
    /\ \E r \in lAtStart :
           /\ r.Source = FilterSourceAIConfirmed
           /\ r.Value \in Range(LearnedList(lFilter, r.FilterType))

\* the common mail domains and the domains of the known ATS names under the
\* suffixes the company heuristic knows
CommonMailDomains == Range(CommonDomains)

KnownATSDomains == {n \o x : n \in Range(ATSDomains), x \in Range(CompanySuffixes)}

\* C23: no learner operation, auto-suggest or false-negative feedback,
\* creates a domain_whitelist rule for a common mail domain or a known ATS
\* domain.
C23_NoCommonOrATSWhitelist ==
    \A r \in lRows :
        r.FilterType = FilterTypeDomainWhitelist
            => /\ ToLower(r.Value) \notin CommonMailDomains
               /\ ToLower(r.Value) \notin KnownATSDomains

\* the learner was handed an email from a common or ATS domain, after it
\* had made a whitelist rule for another domain
C23_Witness ==
    /\ lOp \in {"learn", "missed"}
    /\ EmailDomain(lEmail) \in CommonMailDomains \cup KnownATSDomains
    /\ \E r \in lRows : r.FilterType = FilterTypeDomainWhitelist

\* C28: at the start of each sync run the filter's learned domain-blacklist
\* patterns are the store's active learned blacklist, also in a later run
\* of the same Tracker.
C28_FilterBlacklistIsStoreBlacklist ==
    lSyncs > 0 => Range(lFilter.learnedDomainBlacklist) = GetLearnedBlacklist(lAtStart)

\* ------------------------------------------------------------------------
\* Parallel batches
\* ------------------------------------------------------------------------

\* C24: ClassifyBatchWithProgress returns len(requests) results, slot i
\* carrying index i and the outcome of request i whatever the completion
\* order; a failed or cancelled request leaves an error in its own slot only.
C24_ResultsByIndex ==
    (gKind = "classify" /\ gPc = "returned")
        => /\ Len(gRet.results) = gN
           /\ \A i \in Indices(gN) :
                  /\ gRet.results[i + 1].Index = i
                  /\ gOutcome[i] = "ok" => /\ gRet.results[i + 1].Value = i
                                            /\ gRet.results[i + 1].Error = "nil"
                  /\ gOutcome[i] = "err" => gRet.results[i + 1].Error = "err"
                  /\ gOutcome[i] = "ctx" => gRet.results[i + 1].Error = "ctx"
                  /\ gOutcome[i] # "none"

\* a batch returned whose results arrived out of index order, with a
\* failed, a cancelled and a classified request
C24_Witness ==
    /\ gKind = "classify"
    /\ gPc = "returned"
    /\ \E i, j, k \in Indices(gN) :
           /\ gOutcome[i] = "ok"
           /\ gOutcome[j] = "err"
           /\ gOutcome[k] = "ctx"
           /\ i > j
           /\ gCur[i] < gCur[j]

\* the messages whose fetch succeeded, in index order
RECURSIVE FetchedOk(_)
FetchedOk(n) ==
    IF n = 0 THEN <<>>
    ELSE IF gOutcome[n - 1] = "ok" THEN Append(FetchedOk(n - 1), n - 1)
         ELSE FetchedOk(n - 1)

\* C25: FetchEmails returns an error only when the provider is not
\* authenticated or a list request fails; when k of the n listed messages
\* fail to fetch it returns no error and the n-k fetched messages.
C25_FetchErrorsOnlyFromList ==
    (gKind = "fetch" /\ gPc = "returned")
        => /\ gRet.err # "nil" <=> (~gAuth \/ gListed = "failed")
           /\ gRet.err = "nil" => /\ gRet.emails = FetchedOk(gN)
                                  /\ Len(gRet.emails) = gN - gErrors

\* a fetch returned without error although some, not all, messages failed
C25_Witness ==
    /\ gKind = "fetch"
    /\ gPc = "returned"
    /\ gRet.err = "nil"
    /\ gErrors > 0
    /\ gErrors < gN
    /\ \E i \in Indices(gN) : gOutcome[i] = "err"

\* C26: within one phase the current values handed to the progress callback
\* are non-decreasing in the order of the invocations.
C26_ProgressNonDecreasing ==
    \A i, j \in 1..Len(gLog) : i < j => gLog[i] <= gLog[j]

\* ------------------------------------------------------------------------
\* Merge
\* ------------------------------------------------------------------------

\* the latest merge command
LastMerge == mCalls[Len(mCalls)]

\* the emails of the table rows joined to conversation id
MergeJoined(rows, id) == {r \in rows : r.ConversationID = id}

\* C27: a merge of source S into a different target T moves every email of
\* S to T, leaves T.email_count the number of emails joined to T and
\* T.last_activity_at their greatest date, and deletes S; a merge that fails
\* changes neither table.
C27_MergeMovesAndIsAtomic ==
    mCalls # <<>> =>
        /\ LastMerge.outcome = "merged" =>
               /\ LastMerge.target # LastMerge.source
               /\ \A r \in mBefore.emails :
                      \E r2 \in mEmails :
                          /\ r2.ID = r.ID
                          /\ r2.Date = r.Date
                          /\ r2.ConversationID =
                                 IF r.ConversationID = LastMerge.source THEN LastMerge.target
                                 ELSE r.ConversationID
               /\ Cardinality(mEmails) = Cardinality(mBefore.emails)
               /\ \A c \in mConvs : c.ID # LastMerge.source
               /\ \E c \in mConvs :
                      /\ c.ID = LastMerge.target
                      /\ c.EmailCount = Cardinality(MergeJoined(mEmails, c.ID))
                      /\ MergeJoined(mEmails, c.ID) # {}
                             => \A r \in MergeJoined(mEmails, c.ID) :
                                    /\ r.Date <= c.LastActivityAt
                                    /\ \E x \in MergeJoined(mEmails, c.ID) :
                                           x.Date = c.LastActivityAt
               /\ \A c \in mBefore.convs :
                      c.ID \notin {LastMerge.target, LastMerge.source} => c \in mConvs
        /\ LastMerge.outcome # "merged" =>
               /\ mEmails = mBefore.emails
               /\ mConvs = mBefore.convs

\* a merge failed, and the next one moved emails to a target whose
\* email_count was short and whose last_activity_at rose
C27_Witness ==
    /\ Len(mCalls) = 2
    /\ mCalls[1].outcome = "merge failed"
    /\ LastMerge.outcome = "merged"
    /\ MergeJoined(mBefore.emails, LastMerge.source) # {}
    /\ \E c \in mBefore.convs :
           /\ c.ID = LastMerge.target
           /\ c.EmailCount # Cardinality(MergeJoined(mBefore.emails, c.ID))
           /\ \E c2 \in mConvs : c2.ID = c.ID /\ c2.LastActivityAt > c.LastActivityAt

\* ------------------------------------------------------------------------
\* C39: containsWord matches at word boundaries only
\* ------------------------------------------------------------------------

\* text has an occurrence of word with no alphanumeric character directly
\* before it and none directly after it
BoundaryOccurrence(text, word) ==
    \E i \in 1..(Len(text) - Len(word) + 1) :
        /\ SubSeq(text, i, i + Len(word) - 1) = word
        /\ i > 1 => ~isWordChar(text[i - 1])
        /\ i + Len(word) <= Len(text) => ~isWordChar(text[i + Len(word)])

\* C39: containsWord(text, word) is true exactly when text contains an
\* occurrence of word whose preceding and following characters, where they
\* exist, are both non-alphanumeric
C39_MatchIffBoundaryOccurrence ==
    wFound # "none" => ((wFound = "match") <=> BoundaryOccurrence(wText, wWord))

\* ------------------------------------------------------------------------
\* C38: ComputeStatus does not depend on the order of the emails
\* ------------------------------------------------------------------------

\* the orderings of a list of emails
Orderings(list) ==
    {[i \in 1..Len(list) |-> list[p[i]]] : p \in Permutations(1..Len(list))}

\* C38: for any two orderings of the same emails, emails of equal date sent
\* by different parties included, ComputeStatus returns the same status
C38_StatusOrderIndependent ==
    sResult # "none" =>
        \A other \in Orderings(sList) :
            ComputeStatus(other, UserEmail, StaleAfterDays, sNow) = sResult

\* ------------------------------------------------------------------------
\* C37: the worker pools terminate
\* ------------------------------------------------------------------------

\* every goroutine is at one place: before the select, in its call, after
\* its send, returned, or returned on the cancelled context
WorkersAccounted ==
    wPhase \in {"fetch", "classify"} =>
        wWaiting + wActive + wHolding + wDone + wCancelled = wTotal

\* C37: fetchMessagesParallel and ClassifyBatchWithProgress always terminate,
\* cancelled or not: every goroutine delivers one result, none stays blocked
\* on the semaphore, and the collector returns, first for the fetch and then
\* for the classification
C37_PoolsTerminate ==
    /\ []WorkersAccounted
    /\ (wPhase = "fetch") ~> (wPhase = "classify")
    /\ (wPhase = "classify") ~> (wPhase = "end")

\* a classification with more requests than semaphore slots returned
\* without a cancellation
C37_Witness ==
    /\ wPhase = "end"
    /\ wTotal > concurrentClassifications
    /\ wPeak = concurrentFetches
    /\ ~wCtxDone

\* goroutine by goroutine: the call returns with one result sent for every
\* input and the channel drained
PoolTerminates ==
    <>(/\ gPc = "returned"
       /\ gChan = <<>>
       /\ gListed # "failed" /\ gAuth => \A i \in Indices(gN) : gW[i] = "done" /\ gOutcome[i] # "none")

\* ------------------------------------------------------------------------
\* C36: mark-spam is all-or-nothing
\* ------------------------------------------------------------------------

\* the recruiter domains of the stored conversations
RecruiterDomains == {AddressDomain(Addr(c.RecruiterEmail)) : c \in conversations}

\* a mark-spam command that ended with an error
MarkSpamFailed == marks' = marks + 1 /\ faults' = faults - 1

\* C36: when a statement of mark-spam fails, the false_positive_count of
\* every domain and the archived flag of every conversation are as they were
\* before the command
C36_MarkSpamStep ==
    MarkSpamFailed =>
        /\ \A d \in RecruiterDomains :
              GetFalsePositiveCount(learnedFilters', d) = GetFalsePositiveCount(learnedFilters, d)
        /\ \A c \in conversations :
              \E after \in conversations' : after.ID = c.ID /\ after.Archived = c.Archived

C36_MarkSpamAllOrNothing == [][C36_MarkSpamStep]_vars

\* ------------------------------------------------------------------------
\* C35: a domain marked fewer than three times is not blacklisted
\* ------------------------------------------------------------------------

\* the message's relevant address matches a pattern of the configured
\* domain blacklist
ConfigBlacklisted(id) ==
    MatchesAnyDomainPattern([NewFilter(FilterConfig) EXCEPT !.userEmail = UserEmail], Mail[id],
                            GetConfigDomainBlacklist(NewFilter(FilterConfig)))

\* what checkDomainBlacklist returns for a match
DomainBlacklistResult == [Include |-> FALSE, Layer |-> LayerBlacklist, Confidence |-> Rat(1, 1)]

\* C35: in a sync, an inbound message from a domain that mark-spam named
\* fewer than three times and that the configured blacklist does not match
\* is not excluded by the domain blacklist (no other feedback having been
\* given)
C35_BelowThresholdNotBlacklisted ==
    feedbacks = 0 =>
        \A i \in 1..Len(filtered) :
            (/\ ~IsFromMe(Mail[filtered[i].ID], UserEmail)
             /\ SpamCallsOf(EmailDomain(Mail[filtered[i].ID])) < autoBlacklistThreshold
             /\ ~ConfigBlacklisted(filtered[i].ID))
            => filtered[i].Result # DomainBlacklistResult

\* ------------------------------------------------------------------------
\* C32: the cache returns no verdict older than 24 hours, the prune deletes
\* expired entries only
\* ------------------------------------------------------------------------

\* a Classify call that returned from the cache lookup
ReturnedCached(c) == cPc[c] = "start" /\ cPc'[c] = "done"

\* C32: a verdict returned from the cache was stored at most 24 hours
\* before the call, and an entry that a setCache deletes was stored more than
\* 24 hours before it
C32_Step ==
    /\ \A c \in Callers :
          ReturnedCached(c) =>
              /\ cacheKey(cReq[c]) \in DOMAIN cache
              /\ cResp'[c] = cache[cacheKey(cReq[c])].response
              /\ cacheNow - cache[cacheKey(cReq[c])].timestamp <= cacheExpiry
    /\ \A k \in DOMAIN cache \ DOMAIN cache' :
          cacheNow - cache[k].timestamp > cacheExpiry

C32_CacheFreshAndPruneExpiredOnly == [][C32_Step]_vars

\* the entry of subject "1" had expired when d asked for it: d went
\* upstream and stored a new one; c's setCache then made the map larger than
\* the threshold and its prune deleted every expired entry and kept the two
\* stored just before
C32_Witness ==
    \E c, d \in Callers :
        /\ cPc[c] = "done" /\ cPc[d] = "done"
        /\ cReq[c].EmailSubject = <<"j">>
        /\ cReq[d].EmailSubject = <<"1">>
        /\ cStart[d] > cacheExpiry
        /\ httpCalls = 2
        /\ cPruned = pruneThreshold - 1
        /\ DOMAIN cache = {cacheKey(cReq[c]), cacheKey(cReq[d])}
        /\ \A k \in DOMAIN cache : cache[k].timestamp = cacheNow

\* ------------------------------------------------------------------------
\* C31: the order and the outcome of ClassifyWithFallback
\* ------------------------------------------------------------------------

\* the providers asked, in the order of the requests sent
ProvidersAsked ==
    (IF bFirst.Sent \in Providers THEN <<bFirst.Sent>> ELSE <<>>)
    \o (IF bSecond.Sent \in Providers THEN <<bSecond.Sent>> ELSE <<>>)

\* C31: the primary provider is asked first; the fallback provider is asked
\* only after the first Classify failed and with a fallback configured, and
\* then what the second Classify gave is returned; with no fallback the
\* primary's error is returned; after a success of the first Classify the
\* fallback is not asked and that result is returned
C31_PrimaryThenFallback ==
    /\ bFirst.Sent \in Providers => bFirst.Sent = SentProvider(bPrimary)
    /\ bSecond # NoCall =>
          /\ bFirst.Error \notin {"nil", "none"}
          /\ bFallback # ""
          /\ bSecond.Sent \in {"", bFallback}
          /\ bRet = [Response |-> bSecond.Response, Error |-> bSecond.Error]
    /\ bPc = "returned" /\ bFirst # NoCall =>
          /\ bFirst.Error = "nil" =>
                bSecond = NoCall /\ bRet = [Response |-> bFirst.Response, Error |-> "nil"]
          /\ bFirst.Error # "nil" /\ bFallback = "" =>
                bSecond = NoCall /\ bRet = [Response |-> "nil", Error |-> bFirst.Error]
          /\ bFirst.Error # "nil" /\ bFallback # "" => bSecond # NoCall

\* the primary failed, the fallback was asked and its response returned
C31_Witness ==
    /\ bPc = "returned"
    /\ bPrimary = "ollama" /\ bFallback = "openai"
    /\ ProvidersAsked = <<"ollama", "openai">>
    /\ bFirst.Error = "ollama failed"
    /\ bRet = [Response |-> "openai: job", Error |-> "nil"]

\* ------------------------------------------------------------------------
\* C34: a failed fetch is not skipped for good
\* ------------------------------------------------------------------------

\* a sync run
RanSync == uRuns' = uRuns + 1

\* C34: a run does not move last_sync_at past a message that it listed and
\* did not get: a message within the range of an incremental sync before the
\* run is within that range after it, so that a later incremental sync lists
\* it again
C34_Step ==
    RanSync =>
        \A id \in uLast'.listed \ uLast'.fetched :
            id \in ListedBy(uLastSync) => id \in ListedBy(uLastSync')

C34_MissedStaysListable == [][C34_Step]_vars

\* the messages a high-confidence job-related verdict came back for
ReturnedHigh ==
    {kBatchResults[i].Response.For : i \in
        {j \in 1..Len(kBatchResults) :
            ActsOn(kBatchResults, j) /\ ~kBatchResults[j].Response.Medium}}

\* C33: each classifier verdict is applied to the uncertain message it was
\* computed for: the loop over the results ends without a panic, every entry
\* of needsValidation and of toProcess pairs a message with the verdict
\* computed for that message, and a message whose own verdict came back
\* job-related with high confidence is included, for every mix of batch-API
\* and per-message batches and every number of results per batch
C33_VerdictAppliedToOwnMessage ==
    /\ kPc # "panic"
    /\ \A j \in 1..Len(kNeeds) : kNeeds[j].Classification.For = kNeeds[j].ID
    /\ \A j \in 1..Len(kToProcess) :
          kToProcess[j].Classification.For = kToProcess[j].ID
    /\ kPc = "done" =>
          ReturnedHigh \subseteq {kToProcess[j].ID : j \in 1..Len(kToProcess)}

====
